---- MODULE Spec2Model ----
(***************************************************************************)
(* A model of emdfile's write engine (src/src/emdfile/write.py): the       *)
(* persistence / diff-merge of a runtime tree of named nodes into one HDF5 *)
(* container file, with the Array node's serialization                     *)
(* (src/src/emdfile/classes/array.py).                                     *)
(*                                                                         *)
(* Strings that the code cuts and glues (tree paths, emdpaths, h5py group  *)
(* names) are sequences of characters; a node name is such a string with   *)
(* no "/" in it.  A multi-letter token such as "data" or "_tmp_" stands    *)
(* for that run of letters and is never cut by the code.                   *)
(*                                                                         *)
(* The container is a function from object paths (sequences of names,      *)
(* read from the file's top) to the object there: a group with its         *)
(* emd_group_type attribute, or a dataset with its contents.               *)
(***************************************************************************)
EXTENDS Naturals, Sequences, FiniteSets, TLC

VARIABLES
    file,       \* the container file at `filepath`
    uuids,      \* how many file identifiers uuid4() has handed out
    tree,       \* the rooted runtime tree the caller built
    free,       \* the caller's freestanding (rootless) node
    last,       \* the last call of write(): its arguments, outcome and the file before it
    ncalls,     \* number of calls of write() made so far
    resolved,   \* the last query put to the path resolver, and its answer
    listed,     \* the last call of write() with a list of Roots, and its outcome
    ow,         \* the _overwrite_single_node in progress, and how far it has got
    engine      \* the last call of one of the engine's functions on its own

vars == <<file, uuids, tree, free, last, ncalls, resolved, listed, ow, engine>>

----------------------------------------------------------------------------
(* Bounds of the model *)

\* calls of write() in one behaviour
MaxCalls == 2

\* nodes below the root of the runtime tree
MaxNodes == 3

\* characters of a tree path put to the resolver
MaxPathLen == 4

----------------------------------------------------------------------------
(* Strings *)

Slash == "/"

\* a one-letter string
S(c) == <<c>>

Last(s) == s[Len(s)]
Front(s) == SubSeq(s, 1, Len(s) - 1)

\* str.split('/')
RECURSIVE split(_)
split(s) ==
    IF \A i \in 1..Len(s) : s[i] # Slash
    THEN <<s>>
    ELSE LET i == CHOOSE i \in 1..Len(s) :
                      s[i] = Slash /\ \A j \in 1..(i - 1) : s[j] # Slash
         IN  <<SubSeq(s, 1, i - 1)>> \o split(SubSeq(s, i + 1, Len(s)))

\* '/'.join(l)
RECURSIVE join(_)
join(l) ==
    IF Len(l) = 0 THEN <<>>
    ELSE IF Len(l) = 1 THEN l[1]
    ELSE l[1] \o <<Slash>> \o join(Tail(l))

\* list.remove(''): drops the first empty string; the ValueError raised when
\* there is none is swallowed
remove_empty(l) ==
    IF \E i \in 1..Len(l) : l[i] = <<>>
    THEN LET i == CHOOSE i \in 1..Len(l) :
                      l[i] = <<>> /\ \A j \in 1..(i - 1) : l[j] # <<>>
         IN  SubSeq(l, 1, i - 1) \o SubSeq(l, i + 1, Len(l))
    ELSE l

\* h5py's Group.name: the absolute path of the object, "/" for the file itself
h5name(p) == IF p = <<>> THEN <<Slash>> ELSE <<Slash>> \o join(p)

----------------------------------------------------------------------------
(* The container *)

NoTag == ""
DataName == S("data")
DimName == S("dim0")
BundleName == S("metadatabundle")
TmpPrefix == S("_tmp_")

\* the kinds of group that hold a data node, and all that the format knows
EMD_data_group_types == {"node", "array", "pointlist", "pointlistarray", "custom"}
EMD_group_types == {"root", "metadatabundle", "metadata"} \cup EMD_data_group_types

Group(tag, v) == [kind |-> "group", tag |-> tag, val |-> v]
Dataset(v) == [kind |-> "dataset", tag |-> NoTag, val |-> v]

EmptyGroups == [p \in {} |-> Group(NoTag, 0)]

IsPrefix(p, q) == Len(p) <= Len(q) /\ SubSeq(q, 1, Len(p)) = p

\* the objects directly inside the group at p, and their names: group.keys()
members(g, p) == {q \in DOMAIN g : Len(q) = Len(p) + 1 /\ IsPrefix(p, q)}
keys(g, p) == {Last(q) : q \in members(g, p)}

\* the outcome of a step that may raise: the container as the step left it,
\* the exception ("none" when it returned) and the group it returned
Ok(g, grp) == [g |-> g, err |-> "none", grp |-> grp]
Raise(g, e) == [g |-> g, err |-> e, grp |-> <<>>]

\* statement sequencing: an exception raised by a step skips what follows it
Then(r, rest(_)) == IF r.err # "none" THEN r ELSE rest(r)

\* create_group putting a new, empty group in the place of what has the name
create_group_replacing(g, p, name, tag) ==
    Ok([q \in {r \in DOMAIN g : ~IsPrefix(Append(p, name), r)} \cup {Append(p, name)} |->
           IF q = Append(p, name) THEN Group(tag, 0) ELSE g[q]],
       Append(p, name))

\* group.create_group(name): fails when the name is taken
create_group(g, p, name, tag) ==
    IF Append(p, name) \in DOMAIN g
    THEN Raise(g, "ValueError")
    ELSE Ok(g @@ (Append(p, name) :> Group(tag, 0)), Append(p, name))

\* group.create_dataset(name, data=v)
create_dataset(g, p, name, v) ==
    IF Append(p, name) \in DOMAIN g
    THEN Raise(g, "ValueError")
    ELSE Ok(g @@ (Append(p, name) :> Dataset(v)), p)

\* the object at p and everything below it
subtree(g, p) == {q \in DOMAIN g : IsPrefix(p, q)}

\* del group[name]
delete(g, p) == [q \in (DOMAIN g) \ subtree(g, p) |-> g[q]]

\* the objects below src, seen from dst: what a link from dst to src shows
relocated(g, src, dst) ==
    [q \in {dst \o SubSeq(r, Len(src) + 1, Len(r)) : r \in subtree(g, src)} |->
        g[src \o SubSeq(q, Len(dst) + 1, Len(q))]]

\* parent.move(old, new): fails when the new name is taken
move(g, p, old, new) ==
    IF Append(p, new) \in DOMAIN g \/ Append(p, old) \notin DOMAIN g
    THEN Raise(g, "ValueError")
    ELSE Ok(delete(g, Append(p, old)) @@ relocated(g, Append(p, old), Append(p, new)),
            Append(p, new))

\* new_group[key] = group[key]: a hard link, no data is copied
link(g, dst, src) ==
    IF dst \in DOMAIN g
    THEN Raise(g, "ValueError")
    ELSE Ok(g @@ relocated(g, src, dst), dst)

----------------------------------------------------------------------------
(* The runtime tree *)

\* A rooted runtime tree: the Root's name, the paths of the nodes below the
\* Root (each a sequence of node names, closed under prefixes), the names of
\* the Root's metadata bundles, the order in which children were added to
\* their parents (the iteration order of every _branch) and the payload the
\* nodes' arrays and the bundles hold at the time of the call.  The Root
\* itself is the empty path.
RootNode == <<>>

\* the children of node d, in the order _branch.keys() yields them
RECURSIVE branch_from(_, _, _)
branch_from(rt, d, names) ==
    IF names = <<>> THEN <<>>
    ELSE (IF Append(d, Head(names)) \in rt.nodes
          THEN <<Append(d, Head(names))>> ELSE <<>>)
         \o branch_from(rt, d, Tail(names))

branch(rt, d) == branch_from(rt, d, rt.order)

\* node.name
node_name(rt, d) == IF d = RootNode THEN rt.name ELSE Last(d)

\* node._treepath: '' for the Root, parent's treepath + '/' + name below it
treepath_of(d) == IF d = RootNode THEN <<>> ELSE <<Slash>> \o join(d)

----------------------------------------------------------------------------
(* Serialization of one node *)

\* the bundles of a node, written inside its group
bundle_groups(grp, md, pay) ==
    (Append(grp, BundleName) :> Group(NoTag, 0)) @@
    [q \in {grp \o <<BundleName, k>> : k \in md} |-> Group("metadata", pay)]

\* Node.to_h5(group): one new group named after the node and tagged with the
\* class's kind; the node's metadata bundles, if any, in a 'metadatabundle'
\* group inside it
Node_to_h5(g, group, name, tag, md, pay) ==
    Then(create_group(g, group, name, tag),
         LAMBDA r : IF md = {} THEN r
                    ELSE Ok(r.g @@ bundle_groups(r.grp, md, pay), r.grp))

\* Array.to_h5 creating its datasets in the group it was given, not in its own
Array_to_h5_in_parent(g, group, name, pay) ==
    Then(Node_to_h5(g, group, name, "array", {}, pay),
         LAMBDA r : Then(create_dataset(r.g, group, DataName, pay),
         LAMBDA r1 : Ok(create_dataset(r1.g, group, DimName, 0).g, r.grp)))

\* Array.to_h5(group): the node's group, then the 'data' dataset and one
\* dataset per dimension (the arrays here have one dimension) inside it
Array_to_h5(g, group, name, pay) ==
    Then(Node_to_h5(g, group, name, "array", {}, pay),
         LAMBDA r : Then(create_dataset(r.g, r.grp, DataName, pay),
         LAMBDA r1 : create_dataset(r1.g, r1.grp, DimName, 0)))

\* the fields of a PointList's structured array
Fields == <<S("qx"), S("qy")>>

\* PointList.to_h5(group): the node's group, then one dataset per field
\* inside it
PointList_to_h5(g, group, name, pay) ==
    Then(Node_to_h5(g, group, name, "pointlist", {}, pay),
         LAMBDA r : Then(create_dataset(r.g, r.grp, Fields[1], pay),
         LAMBDA r1 : create_dataset(r1.g, r1.grp, Fields[2], pay)))

\* os.path.basename(group.name): the 'name' that Array._get_constructor_args
\* and PointList._get_constructor_args hand to the constructor
constructor_name(group) == Last(split(h5name(group)))

\* data.to_h5(group) for a freestanding node of either class
node_to_h5(g, group, node) ==
    IF node.class = "array" THEN Array_to_h5(g, group, node.name, node.pay)
    ELSE PointList_to_h5(g, group, node.name, node.pay)

\* data.to_h5(group) for the node d of the runtime tree rt
to_h5(g, group, rt, d) ==
    IF d = RootNode
    THEN Node_to_h5(g, group, rt.name, "root", rt.md, rt.pay)
    ELSE Array_to_h5(g, group, Last(d), rt.pay)

write_single_node(g, group, rt, d) == to_h5(g, group, rt, d)

\* _write_tree(group, data): every node below data, each inside the group of
\* its parent; data itself is not written.  `kids` is what is left of the
\* loop over data._branch.
RECURSIVE write_tree_loop(_, _, _, _)
\* write_tree_loop writing every node into the one group it was given
write_tree_loop_flat(g, group, rt, kids) ==
    IF kids = <<>> THEN Ok(g, group)
    ELSE Then(write_single_node(g, group, rt, Head(kids)),
         LAMBDA r1 : Then(write_tree_loop(r1.g, group, rt, branch(rt, Head(kids))),
         LAMBDA r2 : write_tree_loop(r2.g, group, rt, Tail(kids))))

write_tree_loop(g, group, rt, kids) ==
    IF kids = <<>> THEN Ok(g, group)
    ELSE Then(write_single_node(g, group, rt, Head(kids)),
         LAMBDA r1 : Then(write_tree_loop(r1.g, r1.grp, rt, branch(rt, Head(kids))),
         LAMBDA r2 : write_tree_loop(r2.g, group, rt, Tail(kids))))

write_tree(g, group, rt, d) == write_tree_loop(g, group, rt, branch(rt, d))

\* a node, then the tree below it inside the node's new group
write_node_and_tree(g, group, rt, d) ==
    Then(write_single_node(g, group, rt, d),
         LAMBDA n : write_tree(n.g, n.grp, rt, d))

\* rootgroup.attrs['emd_group_type'] = 'root'
set_tag(g, p, tag) == [g EXCEPT ![p].tag = tag]

\* write_rest blind to the flag when data is a node: the node and its tree
write_rest_always_full(g, rootgroup, rt, d, tr) ==
    IF d = RootNode
    THEN IF tr = "False" THEN Ok(g, rootgroup)
         ELSE write_tree(g, rootgroup, rt, d)
    ELSE write_node_and_tree(g, rootgroup, rt, d)

\* the second half of _write_from_root: "write the rest"
write_rest(g, rootgroup, rt, d, tr) ==
    IF d = RootNode
    THEN IF tr = "False" THEN Ok(g, rootgroup)
         ELSE write_tree(g, rootgroup, rt, d)
    ELSE IF tr = "False" THEN write_single_node(g, rootgroup, rt, d)
    ELSE IF tr = "True" THEN write_node_and_tree(g, rootgroup, rt, d)
    ELSE write_tree(g, rootgroup, rt, d)

\* write_from_root writing from the root whatever node data is
write_from_root_whole_tree(g, rt, d, tr) ==
    Then(write_single_node(g, <<>>, rt, RootNode),
         LAMBDA r0 : write_rest(set_tag(r0.g, r0.grp, "root"), r0.grp, rt, RootNode, tr))

\* write_from_root leaving the new top-level group marked as a plain node
write_from_root_as_node(g, rt, d, tr) ==
    Then(write_single_node(g, <<>>, rt, RootNode),
         LAMBDA r0 : write_rest(set_tag(r0.g, r0.grp, "node"), r0.grp, rt, d, tr))

\* _write_from_root(file, root, data, tree): a new root group at the top of
\* the file, then the node and/or its tree inside it
write_from_root(g, rt, d, tr) ==
    Then(write_single_node(g, <<>>, rt, RootNode),
         LAMBDA r0 : write_rest(set_tag(r0.g, r0.grp, "root"), r0.grp, rt, d, tr))

----------------------------------------------------------------------------
(* The file *)

NoHeader == [emd_group_type |-> NoTag, version_major |-> 0, version_minor |-> 0,
             UUID |-> 0]

\* no file at filepath
NoFile == [exists |-> FALSE, header |-> NoHeader, g |-> EmptyGroups]

\* h5py.File(filepath, 'w'): a new, empty container
NewFile == [exists |-> TRUE, header |-> NoHeader, g |-> EmptyGroups]

\* _write_header(file); authoring program and user are fixed strings
write_header(f, uuid) ==
    [f EXCEPT !.header = [emd_group_type |-> "file", version_major |-> 1,
                          version_minor |-> 0, UUID |-> uuid]]

\* _is_EMD_file(filepath): the file carries the format header
is_EMD_file(f) == f.exists /\ f.header.emd_group_type = "file"

\* _get_EMD_rootgroups(filepath): the names of the top-level groups tagged root
get_EMD_rootgroups(f) ==
    {Last(q) : q \in {q \in members(f.g, <<>>) :
                        f.g[q].kind = "group" /\ f.g[q].tag = "root"}}

----------------------------------------------------------------------------
(* Path resolution *)

\* the three outcomes of _validate_treepath: False, (grp, True), (grp, False)
Invalid == [valid |-> FALSE, inside |-> FALSE, grp |-> <<>>]
Exact(grp) == [valid |-> TRUE, inside |-> TRUE, grp |-> grp]
OneBeyond(grp) == [valid |-> TRUE, inside |-> FALSE, grp |-> grp]

\* the loop of _validate_treepath from its i-th name on, standing in `group`
RECURSIVE validate_from(_, _, _, _)
validate_from(g, group, grp_names, i) ==
    IF i > Len(grp_names) THEN Exact(group)
    ELSE IF grp_names[i] \notin keys(g, group)
    THEN IF i = Len(grp_names) THEN OneBeyond(group) ELSE Invalid
    ELSE IF g[Append(group, grp_names[i])].kind # "group" THEN Invalid
    ELSE validate_from(g, Append(group, grp_names[i]), grp_names, i + 1)

\* _validate_treepath(rootgroup, treepath)
validate_treepath(g, rootgroup, treepath) ==
    validate_from(g, rootgroup, remove_empty(split(treepath)), 1)

----------------------------------------------------------------------------
(* Replacing one node *)

NonEmpty(x) == x # <<>>

\* file[path]: HDF5 reads a path name by name, skipping empty names
h5path(s) == SelectSeq(split(s), NonEmpty)

\* data_keys with the kind test narrowed to plain nodes: arrays are not relinked
data_keys_plain_only(g, group) ==
    {k \in keys(g, group) : g[Append(group, k)].tag = "node"}

\* data_keys taking every child that carries a marker, whatever its value
data_keys_any_marker(g, group) ==
    {k \in keys(g, group) : g[Append(group, k)].tag # NoTag}

\* the data children of a group: tagged, with a recognized data-node kind
data_keys(g, group) ==
    {k \in keys(g, group) :
        /\ g[Append(group, k)].tag # NoTag
        /\ g[Append(group, k)].tag \in EMD_data_group_types}

\* copy_links copying no link
copy_links_none(g, old, new, ks) == Ok(g, new)

\* the loop `for key in keys: new_group[key] = group[key]`
RECURSIVE copy_links(_, _, _, _)
copy_links(g, old, new, ks) ==
    IF ks = {} THEN Ok(g, new)
    ELSE Then(link(g, Append(new, CHOOSE k \in ks : TRUE),
                      Append(old, CHOOSE k \in ks : TRUE)),
              LAMBDA r : copy_links(r.g, old, new, ks \ {CHOOSE k \in ks : TRUE}))

\* the names _overwrite_single_node cuts out of group.name
group_basename(group) == Last(split(h5name(group)))
group_rootname(group) == <<Slash>> \o split(h5name(group))[2]
group_treepath(group) ==
    <<Slash>> \o join(SubSeq(split(h5name(group)), 3, Len(split(h5name(group)))))

\* the parent group, looked up from the root's name and data._treepath
parentgroup_of(group, d) ==
    h5path(group_rootname(group) \o join(Front(split(treepath_of(d)))))

\* replace_node without "Remove the old group"
replace_node_keeps_old(g, parentgroup, name, rt, d) ==
    Then(move(g, parentgroup, name, TmpPrefix \o name),
         LAMBDA old : Then(write_single_node(old.g, parentgroup, rt, d),
         LAMBDA new : Then(copy_links(new.g, old.grp, new.grp, data_keys(new.g, old.grp)),
         LAMBDA r : Ok(r.g, new.grp))))

\* rename the old group, write the new data, copy the links, remove the old group
replace_node(g, parentgroup, name, rt, d) ==
    Then(move(g, parentgroup, name, TmpPrefix \o name),
         LAMBDA old : Then(write_single_node(old.g, parentgroup, rt, d),
         LAMBDA new : Then(copy_links(new.g, old.grp, new.grp, data_keys(new.g, old.grp)),
         LAMBDA r : Ok(delete(r.g, Append(parentgroup, TmpPrefix \o name)), new.grp))))

\* _overwrite_single_node(group, data)
overwrite_single_node(g, group, rt, d) ==
    IF node_name(rt, d) # group_basename(group) THEN Raise(g, "AssertionError")
    ELSE IF group_treepath(group) # treepath_of(d) THEN Raise(g, "AssertionError")
    ELSE IF parentgroup_of(group, d) \notin DOMAIN g THEN Raise(g, "KeyError")
    ELSE replace_node(g, parentgroup_of(group, d), group_basename(group), rt, d)

----------------------------------------------------------------------------
(* Reconciling a branch *)

\* the children of a group that carry an emd_group_type, of any value
tagged_keys(g, group) == {k \in keys(g, group) : g[Append(group, k)].tag # NoTag}

\* _append_branch(group, data, appendover); `kids` is what is left of the loop
\* over data._branch and `groupkeys` the tagged children found before the loop
RECURSIVE append_branch_loop(_, _, _, _, _, _)
RECURSIVE append_branch(_, _, _, _, _)

\* append_child recursing with `group` where the code passes next_node
append_child_same_group(g, group, rt, c, groupkeys, appendover) ==
    IF Last(c) \notin groupkeys
    THEN Then(write_single_node(g, group, rt, c),
              LAMBDA w : write_tree(w.g, group, rt, c))
    ELSE Then(IF appendover
              THEN overwrite_single_node(g, Append(group, Last(c)), rt, c)
              ELSE Ok(g, Append(group, Last(c))),
              LAMBDA next_node : append_branch(next_node.g, group, rt, c, appendover))

\* one turn of the loop, for the child c of data
append_child(g, group, rt, c, groupkeys, appendover) ==
    IF Last(c) \notin groupkeys
    THEN Then(write_single_node(g, group, rt, c),
              LAMBDA w : write_tree(w.g, group, rt, c))
    ELSE Then(IF appendover
              THEN overwrite_single_node(g, Append(group, Last(c)), rt, c)
              ELSE Ok(g, Append(group, Last(c))),
              LAMBDA next_node : append_branch(next_node.g, next_node.grp, rt, c,
                                               appendover))

append_branch_loop(g, group, rt, kids, groupkeys, appendover) ==
    IF kids = <<>> THEN Ok(g, group)
    ELSE Then(append_child(g, group, rt, Head(kids), groupkeys, appendover),
              LAMBDA r : append_branch_loop(r.g, group, rt, Tail(kids), groupkeys,
                                            appendover))

append_branch(g, group, rt, d, appendover) ==
    append_branch_loop(g, group, rt, branch(rt, d), tagged_keys(g, group), appendover)

----------------------------------------------------------------------------
(* Root metadata *)

\* the attributes a group carries: its emd_group_type, when tagged (the
\* python_class attribute plays no part in the engine)
attrs_keys(it) == IF it.tag # NoTag THEN {"emd_group_type"} ELSE {}

\* the attribute _append_root_metadata reads the kind of a bundle from
bundle_kind_attr == "emd_group_keys"

\* group.attrs[a], for an attribute the group carries
attr_value(it, a) == IF a = "emd_group_type" THEN it.tag ELSE NoTag

\* Metadata.to_h5(group): one group tagged metadata, holding the bundle
Metadata_to_h5(g, group, name, pay) ==
    Then(create_group(g, group, name, "metadata"),
         LAMBDA r : Ok([r.g EXCEPT ![r.grp].val = pay], r.grp))

\* one turn of the loop `for key in root._metadata`
append_bundle(g, mdbundle_group, key, metadata_groups, pay, appendover) ==
    IF key \in metadata_groups
    THEN IF appendover
         THEN Metadata_to_h5(delete(g, Append(mdbundle_group, key)), mdbundle_group,
                             key, pay)
         ELSE Ok(g, mdbundle_group)
    ELSE Metadata_to_h5(g, mdbundle_group, key, pay)

RECURSIVE append_metadata_loop(_, _, _, _, _, _)
append_metadata_loop(g, mdbundle_group, ks, metadata_groups, pay, appendover) ==
    IF ks = {} THEN Ok(g, mdbundle_group)
    ELSE Then(append_bundle(g, mdbundle_group, CHOOSE k \in ks : TRUE, metadata_groups,
                            pay, appendover),
              LAMBDA r : append_metadata_loop(r.g, mdbundle_group,
                             ks \ {CHOOSE k \in ks : TRUE}, metadata_groups, pay,
                             appendover))

\* the children of the bundle group that carry an emd_group_type, and those
\* of them whose kind attribute cannot be read (KeyError)
tagged_bundles(g, mdbundle_group) ==
    {k \in keys(g, mdbundle_group) :
        "emd_group_type" \in attrs_keys(g[Append(mdbundle_group, k)])}
unreadable_bundles(g, mdbundle_group) ==
    {k \in tagged_bundles(g, mdbundle_group) :
        bundle_kind_attr \notin attrs_keys(g[Append(mdbundle_group, k)])}
readable_metadata(g, mdbundle_group) ==
    {k \in tagged_bundles(g, mdbundle_group) \ unreadable_bundles(g, mdbundle_group) :
        attr_value(g[Append(mdbundle_group, k)], bundle_kind_attr) = "metadata"}

\* _append_root_metadata(rootgroup, root, appendover)
append_root_metadata(g, rootgroup, rt, appendover) ==
    IF rt.md = {} THEN Ok(g, rootgroup)
    ELSE IF BundleName \notin keys(g, rootgroup)
    THEN Then(create_group(g, rootgroup, BundleName, NoTag),
              LAMBDA r : append_metadata_loop(r.g, r.grp, rt.md, {}, rt.pay, appendover))
    ELSE IF unreadable_bundles(g, Append(rootgroup, BundleName)) # {}
    THEN Raise(g, "KeyError")
    ELSE append_metadata_loop(g, Append(rootgroup, BundleName), rt.md,
                              readable_metadata(g, Append(rootgroup, BundleName)),
                              rt.pay, appendover)

----------------------------------------------------------------------------
(* write() *)

writemode == {"w", "write"}
overwritemode == {"o", "overwrite"}
appendmode == {"a", "+", "append"}
appendovermode == {"oa", "ao", "o+", "+o", "appendover"}
allmodes == writemode \cup overwritemode \cup appendmode \cup appendovermode

\* the emdpath argument: None, or a string
NoPath == [given |-> FALSE, s |-> <<>>]
PathArg(s) == [given |-> TRUE, s |-> s]

\* s[1:]
after_first(s) == IF s = <<>> THEN <<>> ELSE Tail(s)

\* s.replace(old, '')
RECURSIVE remove_all(_, _)
remove_all(s, old) ==
    IF old = <<>> \/ Len(s) < Len(old) THEN s
    ELSE IF SubSeq(s, 1, Len(old)) = old
    THEN remove_all(SubSeq(s, Len(old) + 1, Len(s)), old)
    ELSE <<Head(s)>> \o remove_all(Tail(s), old)

\* os.path.basename
basename(s) == Last(split(s))

\* group.__contains__(name): an absolute name is looked up from the file's top
contains(g, group, s) ==
    /\ s # <<>>
    /\ \/ (IF s[1] = Slash THEN h5path(s) ELSE group \o h5path(s)) = <<>>
       \/ (IF s[1] = Slash THEN h5path(s) ELSE group \o h5path(s)) \in DOMAIN g

\* data.tree(path): the runtime node at `path` below d; found = FALSE stands
\* for the AssertionError of a path that leads to no node
tree_lookup(rt, d, s) ==
    [found |-> (d \o h5path(s)) = RootNode \/ (d \o h5path(s)) \in rt.nodes,
     node |-> d \o h5path(s)]

\* target_grp.name.replace(source_grp.name, '')[1:]
path_to_target(source_grp, target_grp) ==
    after_first(remove_all(h5name(target_grp), h5name(source_grp)))

\* the parsing of emdpath: the root's name, and the tree path after it
emdpath_rootname(s) == split(IF s[1] = Slash THEN Tail(s) ELSE s)[1]
emdpath_treepath(s) == join(Tail(split(IF s[1] = Slash THEN Tail(s) ELSE s)))

\* write_at_target that never writes the node itself, only what is below it
write_at_target_subtree_only(g, target_grp, rt, d, tr) ==
    IF d = RootNode /\ tr = "False" THEN Raise(g, "Exception")
    ELSE write_tree(g, target_grp, rt, d)

\* "append to the tree...": the write at the target group, root not in the file
write_at_target(g, target_grp, rt, d, tr) ==
    IF d = RootNode /\ tr = "False" THEN Raise(g, "Exception")
    ELSE IF d = RootNode THEN write_tree(g, target_grp, rt, d)
    ELSE IF tr = "False" THEN write_single_node(g, target_grp, rt, d)
    ELSE IF tr = "True" THEN write_node_and_tree(g, target_grp, rt, d)
    ELSE write_tree(g, target_grp, rt, d)

\* the check of `where` after _validate_treepath(rootgroup, treepath)
append_at_where(g, where, rt, d, tr) ==
    IF ~where.valid THEN Raise(g, "Exception")
    ELSE IF ~where.inside THEN Raise(g, "Exception")
    ELSE write_at_target(g, where.grp, rt, d, tr)

\* an existing file, root not in it, emdpath given: append at the target node
append_at_target(g, rt, d, emdpath, tr) ==
    IF emdpath = <<>> THEN Raise(g, "IndexError")
    ELSE IF emdpath_rootname(emdpath) \notin keys(g, <<>>)
    THEN Raise(g, "AssertionError")
    ELSE append_at_where(g,
             validate_treepath(g, <<emdpath_rootname(emdpath)>>,
                               emdpath_treepath(emdpath)),
             rt, d, tr)

\* overwrite the node at `group` under appendover, else leave it
overwrite_or_keep(g, group, rt, d, appendover) ==
    IF appendover THEN overwrite_single_node(g, group, rt, d) ELSE Ok(g, group)

\* place_A overwriting the node found in the file under any flag
place_A_overwrites_under_any_flag(g, where, rt, d, tr, appendover) ==
    IF ~where.valid THEN Raise(g, "Exception")
    ELSE IF where.inside
    THEN Then(overwrite_or_keep(g, where.grp, rt, d, appendover),
              LAMBDA next_node : IF tr = "False" THEN next_node
                                 ELSE append_branch(next_node.g, next_node.grp, rt, d,
                                                    appendover))
    ELSE IF tr = "True" THEN write_node_and_tree(g, where.grp, rt, d)
         ELSE IF tr = "False" THEN write_single_node(g, where.grp, rt, d)
         ELSE write_tree(g, where.grp, rt, d)

\* place_A writing the node itself, one beyond the file, under any flag
place_A_always_writes_node(g, where, rt, d, tr, appendover) ==
    IF ~where.valid THEN Raise(g, "Exception")
    ELSE IF where.inside
    THEN IF tr = "True"
         THEN Then(overwrite_or_keep(g, where.grp, rt, d, appendover),
                   LAMBDA next_node : append_branch(next_node.g, next_node.grp, rt, d,
                                                    appendover))
         ELSE IF tr = "False" THEN overwrite_or_keep(g, where.grp, rt, d, appendover)
         ELSE append_branch(g, where.grp, rt, d, appendover)
    ELSE IF tr = "False" THEN write_single_node(g, where.grp, rt, d)
         ELSE write_node_and_tree(g, where.grp, rt, d)

\* diffmerge A, data not the root: the branches on `where`
place_A(g, where, rt, d, tr, appendover) ==
    IF ~where.valid THEN Raise(g, "Exception")
    ELSE IF where.inside
    THEN IF tr = "True"
         THEN Then(overwrite_or_keep(g, where.grp, rt, d, appendover),
                   LAMBDA next_node : append_branch(next_node.g, next_node.grp, rt, d,
                                                    appendover))
         ELSE IF tr = "False" THEN overwrite_or_keep(g, where.grp, rt, d, appendover)
         ELSE append_branch(g, where.grp, rt, d, appendover)
    ELSE IF tr = "True" THEN write_node_and_tree(g, where.grp, rt, d)
         ELSE IF tr = "False" THEN write_single_node(g, where.grp, rt, d)
         ELSE write_tree(g, where.grp, rt, d)

\* diffmerge A after the root metadata: "choose behavior and write"
merge_A(g, rootgroup, rt, d, tr, appendover) ==
    IF d = RootNode
    THEN IF tr = "True" THEN append_branch(g, rootgroup, rt, d, appendover)
         ELSE Ok(g, rootgroup)
    ELSE place_A(g, validate_treepath(g, rootgroup, treepath_of(d)), rt, d, tr,
                 appendover)

\* diffmerge A: the root is in the file, no emdpath
diffmerge_A(g, rt, d, tr, appendover) ==
    Then(append_root_metadata(g, <<rt.name>>, rt, appendover),
         LAMBDA m : merge_A(m.g, <<rt.name>>, rt, d, tr, appendover))

\* the write that ends each matching branch of diffmerge B
merge_at(g, target_grp, rt, d, tr, appendover) ==
    Then(IF appendover /\ tr \in {"True", "False"}
         THEN overwrite_single_node(g, target_grp, rt, d)
         ELSE Ok(g, target_grp),
         LAMBDA o : IF tr \in {"True", "None"}
                    THEN append_branch(o.g, o.grp, rt, d, appendover)
                    ELSE o)

\* data = data.tree(path_to_target), then the write
merge_at_found(g, target_grp, rt, sub, tr, appendover) ==
    IF ~sub.found THEN Raise(g, "Exception")
    ELSE merge_at(g, target_grp, rt, sub.node, tr, appendover)

\* diffmerge B, data not the root: the branches on the source node's place
place_B(g, src, target_grp, rt, d, tr, appendover) ==
    IF ~src.valid THEN Raise(g, "Exception")
    ELSE IF ~src.inside
    THEN IF h5name(src.grp) = h5name(target_grp)
         THEN IF tr \in {"True", "None"}
              THEN append_branch(g, target_grp, rt, d, appendover)
              ELSE write_single_node(g, target_grp, rt, d)
         ELSE Raise(g, "Exception")
    ELSE IF h5name(src.grp) = h5name(target_grp)
    THEN merge_at(g, target_grp, rt, d, tr, appendover)
    ELSE IF basename(h5name(src.grp)) \in keys(g, target_grp)
    THEN merge_at(g, src.grp, rt, d, tr, appendover)
    ELSE IF contains(g, src.grp, h5name(target_grp))
    THEN merge_at_found(g, target_grp, rt,
             tree_lookup(rt, d, path_to_target(src.grp, target_grp)), tr, appendover)
    ELSE Raise(g, "Exception")

\* diffmerge B after the root metadata: "choose behavior and write"
merge_B(g, rootgroup, target_grp, rt, d, tr, appendover) ==
    IF d = RootNode
    THEN IF ~contains(g, rootgroup, h5name(target_grp))
         THEN Raise(g, "AssertionError")
         ELSE merge_at_found(g, target_grp, rt,
                  tree_lookup(rt, d, path_to_target(rootgroup, target_grp)), tr,
                  appendover)
    ELSE place_B(g, validate_treepath(g, rootgroup, treepath_of(d)), target_grp, rt, d,
                 tr, appendover)

\* diffmerge B from the check of the target on
target_B(g, where, rt, d, tr, appendover) ==
    IF ~where.valid THEN Raise(g, "Exception")
    ELSE IF ~where.inside THEN Raise(g, "Exception")
    ELSE Then(append_root_metadata(g, <<rt.name>>, rt, appendover),
              LAMBDA m : merge_B(m.g, <<rt.name>>, where.grp, rt, d, tr, appendover))

\* diffmerge B: the root is in the file, emdpath given
diffmerge_B(g, rt, d, emdpath, tr, appendover) ==
    IF emdpath = <<>> THEN Raise(g, "IndexError")
    ELSE target_B(g, validate_treepath(g, <<rt.name>>, emdpath_treepath(emdpath)),
                  rt, d, tr, appendover)

\* the outcome of a call of write(): the file it leaves, the exception it
\* raised ("none" when it returned), and whether it got as far as giving a
\* rootless `data` its root
Returned(f, e, attached) == [file |-> f, err |-> e, attached |-> attached]

\* closed writing a header, with a new UUID, each time a file is closed
closed_rewrites_header(f, r) ==
    Returned(write_header([f EXCEPT !.g = r.g], f.header.UUID + 1), r.err, TRUE)

\* the file as the `with h5py.File(...)` block leaves it, and the block's outcome
closed(f, r) == Returned([f EXCEPT !.g = r.g], r.err, TRUE)

\* append_existing without the assertion that the file is an EMD file
append_existing_unchecked(f, rt, d, mode, emdpath, tr) ==
    IF rt.name \notin get_EMD_rootgroups(f) /\ ~emdpath.given
    THEN closed(f, write_from_root(f.g, rt, d, tr))
    ELSE IF rt.name \notin get_EMD_rootgroups(f)
    THEN closed(f, append_at_target(f.g, rt, d, emdpath.s, tr))
    ELSE IF ~emdpath.given
    THEN closed(f, diffmerge_A(f.g, rt, d, tr, mode \in appendovermode))
    ELSE closed(f, diffmerge_B(f.g, rt, d, emdpath.s, tr, mode \in appendovermode))

\* append_existing writing a new root into an emptied container
append_existing_replaces(f, rt, d, mode, emdpath, tr) ==
    IF ~is_EMD_file(f) THEN Returned(f, "AssertionError", TRUE)
    ELSE IF rt.name \notin get_EMD_rootgroups(f) /\ ~emdpath.given
    THEN closed(f, write_from_root(EmptyGroups, rt, d, tr))
    ELSE IF rt.name \notin get_EMD_rootgroups(f)
    THEN closed(f, append_at_target(f.g, rt, d, emdpath.s, tr))
    ELSE IF ~emdpath.given
    THEN closed(f, diffmerge_A(f.g, rt, d, tr, mode \in appendovermode))
    ELSE closed(f, diffmerge_B(f.g, rt, d, emdpath.s, tr, mode \in appendovermode))

\* "append to an existing file": the four cases
append_existing(f, rt, d, mode, emdpath, tr) ==
    IF ~is_EMD_file(f) THEN Returned(f, "AssertionError", TRUE)
    ELSE IF rt.name \notin get_EMD_rootgroups(f) /\ ~emdpath.given
    THEN closed(f, write_from_root(f.g, rt, d, tr))
    ELSE IF rt.name \notin get_EMD_rootgroups(f)
    THEN closed(f, append_at_target(f.g, rt, d, emdpath.s, tr))
    ELSE IF ~emdpath.given
    THEN closed(f, diffmerge_A(f.g, rt, d, tr, mode \in appendovermode))
    ELSE closed(f, diffmerge_B(f.g, rt, d, emdpath.s, tr, mode \in appendovermode))

\* write_or_append without the `not exists(filepath)` case of the append modes
write_or_append_existing_only(f, uuid, rt, d, mode, emdpath, tr) ==
    IF mode \in writemode
    THEN closed(write_header(NewFile, uuid), write_from_root(EmptyGroups, rt, d, tr))
    ELSE append_existing(f, rt, d, mode, emdpath, tr)

\* "write a new file", or append to the existing one
write_or_append(f, uuid, rt, d, mode, emdpath, tr) ==
    IF mode \in writemode \/ (mode \in appendmode \cup appendovermode /\ ~f.exists)
    THEN closed(write_header(NewFile, uuid), write_from_root(EmptyGroups, rt, d, tr))
    ELSE append_existing(f, rt, d, mode, emdpath, tr)

\* write() from the point where `data` is a Node and its root is known (the
\* runtime tree rt, with data its node d): "overwrite mode - delete existing
\* file", then the rest
write_node(f, uuid, rt, d, mode, emdpath, tr) ==
    IF mode \in overwritemode
    THEN write_or_append(NoFile, uuid, rt, d, "w", emdpath, tr)
    ELSE write_or_append(f, uuid, rt, d, mode, emdpath, tr)

\* the validation of `mode` and `tree`
validated(f, uuid, rt, d, mode, emdpath, tr) ==
    IF mode \notin allmodes THEN Returned(f, "AssertionError", FALSE)
    ELSE IF tr \notin {"True", "False", "None"} THEN Returned(f, "AssertionError", FALSE)
    ELSE IF mode \in writemode /\ f.exists THEN Returned(f, "AssertionError", FALSE)
    ELSE write_node(f, uuid, rt, d, mode, emdpath, tr)

\* "emdpath implies append mode"
parse_mode(mode, emdpath) ==
    IF emdpath.given /\ mode \notin appendovermode THEN "a" ELSE mode

\* write(filepath, data, mode, emdpath, tree)
write(f, uuid, rt, d, mode, emdpath, tr) ==
    validated(f, uuid, rt, d, parse_mode(mode, emdpath), emdpath,
              IF tr = "noroot" THEN "None" ELSE tr)

\* the mode of the later Roots of a list: "change to append mode"
later_mode_unchanged(mode) == mode

later_mode(mode) ==
    IF mode \in writemode THEN "a"
    ELSE IF mode \in overwritemode THEN "ao"
    ELSE mode

\* the loop `for x in data[1:]: write(filepath, x, mode=mode, tree=tree)`,
\* from the outcome of the call before; an exception ends it
RECURSIVE write_later_roots(_, _, _, _, _)
write_later_roots(out, uuid, roots, mode, tr) ==
    IF roots = <<>> \/ out.err # "none" THEN out
    ELSE write_later_roots(write(out.file, uuid, Head(roots), RootNode, mode, NoPath, tr),
                           uuid, Tail(roots), mode, tr)

\* write(filepath, data, mode, emdpath, tree) with data a list of Roots: the
\* mode and the flag are parsed and validated, then each Root is written by
\* a call of its own, without the emdpath
write_roots(f, uuid, roots, mode, emdpath, tr) ==
    IF parse_mode(mode, emdpath) \notin allmodes THEN Returned(f, "AssertionError", FALSE)
    ELSE IF tr \notin {"True", "False", "None"} THEN Returned(f, "AssertionError", FALSE)
    ELSE IF parse_mode(mode, emdpath) \in writemode /\ f.exists
    THEN Returned(f, "AssertionError", FALSE)
    ELSE write_later_roots(
             write(f, uuid, Head(roots), RootNode, parse_mode(mode, emdpath), NoPath, tr),
             uuid, Tail(roots), later_mode(parse_mode(mode, emdpath)), tr)

----------------------------------------------------------------------------
(* The callers' inputs *)

NodeNames == {S("A"), S("B")}
RootName == S("R")
FreeNames == {S("X"), S("Y")}
BundleNames == {S("m")}

\* the shapes of a runtime tree with at most n nodes below the root: sets
\* of node paths closed under prefixes, grown one add_to_tree at a time
RECURSIVE ShapesUpTo(_)
ShapesUpTo(n) ==
    IF n = 0 THEN {{}}
    ELSE ShapesUpTo(n - 1) \cup
         UNION {{ns \cup {Append(p, x)} : p \in ns \cup {<<>>}, x \in NodeNames} :
                    ns \in ShapesUpTo(n - 1)}

Shapes == ShapesUpTo(MaxNodes)

Orders == {<<S("A"), S("B")>>, <<S("B"), S("A")>>}

\* some node of the shape has two children, so the order of insertion shows
HasSiblings(ns) ==
    \E p \in ns : \E q \in ns : p # q /\ Len(p) = Len(q) /\ Front(p) = Front(q)

RuntimeTrees ==
    {t \in [name : {RootName}, nodes : Shapes, md : SUBSET BundleNames,
            order : Orders, pay : {0}] :
        HasSiblings(t.nodes) \/ t.order = <<S("A"), S("B")>>}

\* Root(name = data.name); root.add_to_tree(data): the tree a rootless node
\* is written from
synthetic_tree(name, pay) ==
    [name |-> name, nodes |-> {<<name>>}, md |-> {}, order |-> <<name>>, pay |-> pay]

\* the second Root of a list of Roots: another name, childless or with one node
SecondRootName == S("Q")
SecondRoots ==
    [name : {SecondRootName}, nodes : {{}, {<<S("A")>>}}, md : {{}},
     order : {<<S("A"), S("B")>>}, pay : {0}]

ModeArgs == {"w", "o", "a", "ao", "x"}
TreeArgs == {"True", "False", "None", "bad"}
ValidFlags == {"True", "False", "None"}
PathArgs == {NoPath, PathArg(<<"R">>), PathArg(<<"R", "/", "A">>), PathArg(<<"X">>)}

\* a file some other program left at filepath: no EMD header
ForeignFile == NewFile

NoCall == [called |-> FALSE, tree |-> synthetic_tree(<<>>, 0), data |-> <<>>,
           rootless |-> FALSE, mode |-> "", emdpath |-> NoPath, flag |-> "",
           err |-> "none", before |-> NoFile, rooted_before |-> FALSE]

NoQuery == [asked |-> FALSE, treepath |-> <<>>, where |-> Invalid]

NoList == [called |-> FALSE, roots |-> <<>>, mode |-> "", emdpath |-> NoPath,
           flag |-> "", err |-> "none", before |-> NoFile]

\* no _overwrite_single_node in progress
NoOverwrite == [pc |-> "idle", data |-> <<>>, todo |-> {}, before |-> EmptyGroups]

\* none of the engine's functions called on its own
NoEngine == [op |-> "none", group |-> <<>>, data |-> <<>>, class |-> "",
             appendover |-> FALSE, err |-> "none", grp |-> <<>>, before |-> EmptyGroups]

\* the characters of the tree paths put to the resolver, and the paths
PathChars == {"A", "B", "/", "data"}

RECURSIVE StringsUpTo(_)
StringsUpTo(n) ==
    IF n = 0 THEN {<<>>}
    ELSE StringsUpTo(n - 1) \cup
         {Append(s, c) : s \in {t \in StringsUpTo(n - 1) : Len(t) = n - 1}, c \in PathChars}

TreePaths == StringsUpTo(MaxPathLen)

----------------------------------------------------------------------------
(* The state machine *)

Init ==
    /\ file \in {NoFile, ForeignFile}
    /\ uuids = 0
    /\ tree \in RuntimeTrees
    /\ free = [n \in FreeNames |-> [rooted |-> FALSE, haspath |-> FALSE]]
    /\ last = NoCall
    /\ ncalls = 0
    /\ resolved = NoQuery
    /\ listed = NoList
    /\ ow = NoOverwrite
    /\ engine = NoEngine

\* the payload the runtime nodes hold at the next call: the caller changes
\* the data between calls, so what each call stored is told apart
NextPay == ncalls + 1

\* the file after the call, and the record of the call
Call(rt, d, rootless, mode, emdpath, tr, out) ==
    /\ file' = out.file
    /\ uuids' = IF out.file.header.UUID = uuids + 1 THEN uuids + 1 ELSE uuids
    /\ last' = [called |-> TRUE, tree |-> rt, data |-> d, rootless |-> rootless,
                mode |-> mode, emdpath |-> emdpath, flag |-> tr, err |-> out.err,
                before |-> file,
                rooted_before |-> rootless /\ free[rt.name].rooted]
    /\ ncalls' = ncalls + 1

\* Attach without "if a root was added, remove it"
Attach_never_removed(n, out) ==
    free' = [free EXCEPT
        ![n] = [rooted |-> free[n].rooted \/ out.attached,
                haspath |-> free[n].haspath \/ out.attached]]

\* data._root after the call: given when the call attached a Root and raised
\* before "if a root was added, remove it"; haspath: _treepath was set
Attach(n, out) ==
    free' = [free EXCEPT
        ![n] = [rooted |-> IF free[n].rooted THEN TRUE
                           ELSE out.attached /\ out.err # "none",
                haspath |-> free[n].haspath \/ out.attached]]

\* write(filepath, data, mode, emdpath, tree) with data the Root of the
\* runtime tree or a node of it
WriteRooted ==
    /\ ncalls < MaxCalls
    /\ ~last.called /\ ~listed.called
    /\ \E d \in {RootNode} \cup tree.nodes, mode \in ModeArgs, emdpath \in PathArgs,
          tr \in TreeArgs :
            Call([tree EXCEPT !.pay = NextPay], d, FALSE, mode, emdpath, tr,
                 write(file, uuids + 1, [tree EXCEPT !.pay = NextPay], d, mode,
                       emdpath, tr))
    /\ UNCHANGED <<tree, free, resolved, listed, ow, engine>>

\* write(filepath, data, mode, emdpath, tree) with data a freestanding node:
\* it gets a Root of its own name for the call (unless an earlier call left
\* it one), and loses it when the call returns
RootlessCall(n, mode, emdpath, tr, out) ==
    /\ Call(synthetic_tree(n, NextPay), <<n>>, TRUE, mode, emdpath, tr, out)
    /\ Attach(n, out)

WriteRootless ==
    /\ ncalls < MaxCalls
    /\ ~last.called /\ ~listed.called
    /\ \E n \in FreeNames, mode \in ModeArgs, emdpath \in PathArgs, tr \in TreeArgs :
            RootlessCall(n, mode, emdpath, tr,
                write(file, uuids + 1, synthetic_tree(n, NextPay), <<n>>, mode,
                      emdpath, tr))
    /\ UNCHANGED <<tree, resolved, listed, ow, engine>>

\* the file after a call with a list of Roots, and the record of the call
ListCall(roots, mode, emdpath, tr, out) ==
    /\ file' = out.file
    /\ uuids' = IF out.file.header.UUID = uuids + 1 THEN uuids + 1 ELSE uuids
    /\ listed' = [called |-> TRUE, roots |-> roots, mode |-> mode, emdpath |-> emdpath,
                  flag |-> tr, err |-> out.err, before |-> file]
    /\ ncalls' = ncalls + 1

\* write(filepath, [root, other], mode, emdpath, tree): the Root of the
\* runtime tree and a second Root, as a list
WriteRoots ==
    /\ ncalls < MaxCalls
    /\ ~last.called /\ ~listed.called
    /\ \E other \in SecondRoots, mode \in ModeArgs, emdpath \in PathArgs, tr \in TreeArgs :
            ListCall(<<[tree EXCEPT !.pay = NextPay], [other EXCEPT !.pay = NextPay]>>,
                     mode, emdpath, tr,
                     write_roots(file, uuids + 1,
                         <<[tree EXCEPT !.pay = NextPay], [other EXCEPT !.pay = NextPay]>>,
                         mode, emdpath, tr))
    /\ UNCHANGED <<tree, free, last, resolved, ow, engine>>

\* root.metadata = <a bundle>: between two calls the caller gives the Root,
\* which had none, its metadata
SetRootMetadata ==
    /\ ~last.called /\ ~listed.called
    /\ ncalls > 0
    /\ ncalls < MaxCalls
    /\ tree.md = {}
    /\ tree' = [tree EXCEPT !.md = BundleNames]
    /\ UNCHANGED <<file, uuids, free, last, ncalls, resolved, listed, ow, engine>>

\* the caller has seen the outcome of the call and goes on
Return ==
    /\ last.called \/ listed.called
    /\ last' = NoCall
    /\ listed' = NoList
    /\ UNCHANGED <<file, uuids, tree, free, ncalls, resolved, ow, engine>>

Next == WriteRooted \/ WriteRootless \/ WriteRoots \/ SetRootMetadata \/ Return

Spec == Init /\ [][Next]_vars

----------------------------------------------------------------------------
(* The path resolver on its own: a file written from the runtime tree, and *)
(* one tree path resolved against its root group                           *)

InitResolve ==
    /\ tree \in RuntimeTrees
    /\ file = write(NoFile, 1, [tree EXCEPT !.pay = 1], RootNode, "w", NoPath,
                    "True").file
    /\ uuids = 1
    /\ free = [n \in FreeNames |-> [rooted |-> FALSE, haspath |-> FALSE]]
    /\ last = NoCall
    /\ ncalls = 1
    /\ resolved = NoQuery
    /\ listed = NoList
    /\ ow = NoOverwrite
    /\ engine = NoEngine

\* _validate_treepath(rootgroup, treepath) against the file's root group
Resolve ==
    /\ ~resolved.asked
    /\ \E treepath \in TreePaths :
            resolved' = [asked |-> TRUE, treepath |-> treepath,
                         where |-> validate_treepath(file.g, <<RootName>>, treepath)]
    /\ UNCHANGED <<file, uuids, tree, free, last, ncalls, listed, ow, engine>>

NextResolve == Resolve

SpecResolve == InitResolve /\ [][NextResolve]_vars

----------------------------------------------------------------------------
(* _overwrite_single_node on its own, statement by statement: a file       *)
(* written from the runtime tree, and one of its nodes overwritten with    *)
(* new data.  Every state is a point at which the call can be interrupted. *)

\* `group`, the stored node's group, and what the function derives from it
ow_group == <<tree.name>> \o ow.data
ow_parentgroup == parentgroup_of(ow_group, ow.data)
ow_name == group_basename(ow_group)
ow_tmp == Append(ow_parentgroup, TmpPrefix \o ow_name)
ow_new_group == Append(ow_parentgroup, ow_name)

InitOverwrite ==
    /\ tree \in RuntimeTrees
    /\ file = write(NoFile, 1, [tree EXCEPT !.pay = 1], RootNode, "w", NoPath,
                    "True").file
    /\ uuids = 1
    /\ free = [n \in FreeNames |-> [rooted |-> FALSE, haspath |-> FALSE]]
    /\ last = NoCall
    /\ ncalls = 1
    /\ resolved = NoQuery
    /\ listed = NoList
    /\ ow \in {[pc |-> "start", data |-> d, todo |-> {}, before |-> file.g] :
                  d \in tree.nodes}
    /\ engine = NoEngine

\* the two assertions, the parent group, and "Rename the old group"
OverwriteRename ==
    /\ ow.pc = "start"
    /\ node_name(tree, ow.data) = ow_name
    /\ group_treepath(ow_group) = treepath_of(ow.data)
    /\ ow_parentgroup \in DOMAIN file.g
    /\ file' = [file EXCEPT !.g = move(file.g, ow_parentgroup, ow_name,
                                       TmpPrefix \o ow_name).g]
    /\ ow' = [ow EXCEPT !.pc = "renamed"]
    /\ UNCHANGED <<uuids, tree, free, last, ncalls, resolved, listed, engine>>

\* "Write the new data", and the keys of the links to copy
OverwriteWrite ==
    /\ ow.pc = "renamed"
    /\ file' = [file EXCEPT !.g = write_single_node(file.g, ow_parentgroup,
                                      [tree EXCEPT !.pay = NextPay], ow.data).g]
    /\ ow' = [ow EXCEPT !.pc = "written", !.todo = data_keys(file.g, ow_tmp)]
    /\ UNCHANGED <<uuids, tree, free, last, ncalls, resolved, listed, engine>>

\* "Copy the links": one turn of the loop, for a key not yet copied
OverwriteLink ==
    /\ ow.pc = "written"
    /\ \E key \in ow.todo :
          /\ file' = [file EXCEPT !.g = link(file.g, Append(ow_new_group, key),
                                             Append(ow_tmp, key)).g]
          /\ ow' = [ow EXCEPT !.todo = ow.todo \ {key}]
    /\ UNCHANGED <<uuids, tree, free, last, ncalls, resolved, listed, engine>>

\* OverwriteRemove not waiting for the loop over the links to end
OverwriteRemove_before_links ==
    /\ ow.pc = "written"
    /\ file' = [file EXCEPT !.g = delete(file.g, ow_tmp)]
    /\ ow' = [ow EXCEPT !.pc = "done"]
    /\ UNCHANGED <<uuids, tree, free, last, ncalls, resolved, listed, engine>>

\* "Remove the old group", after the loop
OverwriteRemove ==
    /\ ow.pc = "written"
    /\ ow.todo = {}
    /\ file' = [file EXCEPT !.g = delete(file.g, ow_tmp)]
    /\ ow' = [ow EXCEPT !.pc = "done"]
    /\ UNCHANGED <<uuids, tree, free, last, ncalls, resolved, listed, engine>>

NextOverwrite == OverwriteRename \/ OverwriteWrite \/ OverwriteLink \/ OverwriteRemove

SpecOverwrite == InitOverwrite /\ [][NextOverwrite]_vars

\* _overwrite_single_node on a group one of whose children may carry a
\* marker that names no kind of data node
InitRelink ==
    /\ tree \in RuntimeTrees
    /\ \E p \in tree.nodes, t \in EMD_group_types :
          file = [write(NoFile, 1, [tree EXCEPT !.pay = 1], RootNode, "w", NoPath,
                        "True").file
                    EXCEPT !.g[<<tree.name>> \o p].tag = t]
    /\ uuids = 1
    /\ free = [n \in FreeNames |-> [rooted |-> FALSE, haspath |-> FALSE]]
    /\ last = NoCall
    /\ ncalls = 1
    /\ resolved = NoQuery
    /\ listed = NoList
    /\ ow \in {[pc |-> "start", data |-> d, todo |-> {}, before |-> file.g] :
                  d \in tree.nodes}
    /\ engine = NoEngine

SpecRelink == InitRelink /\ [][NextOverwrite]_vars

----------------------------------------------------------------------------
(* The engine's functions on their own: a file written from the runtime    *)
(* tree as it was before nodes were added to it or taken from it, and one  *)
(* call of _write_single_node or of _append_branch on a group of that file *)

\* the groups of a container, the file itself among them
groups_of(g) == {<<>>} \cup {p \in DOMAIN g : g[p].kind = "group"}

InitEngine ==
    /\ tree \in RuntimeTrees
    /\ file \in {write(NoFile, 1, [tree EXCEPT !.nodes = ns, !.pay = 1], RootNode, "w",
                       NoPath, "True").file : ns \in Shapes}
    /\ uuids = 1
    /\ free = [n \in FreeNames |-> [rooted |-> FALSE, haspath |-> FALSE]]
    /\ last = NoCall
    /\ ncalls = 1
    /\ resolved = NoQuery
    /\ listed = NoList
    /\ ow = NoOverwrite
    /\ engine = NoEngine

\* the file after the call, and the record of the call
EngineCall(op, group, data, class, appendover, r) ==
    /\ file' = [file EXCEPT !.g = r.g]
    /\ engine' = [op |-> op, group |-> group, data |-> data, class |-> class,
                   appendover |-> appendover, err |-> r.err, grp |-> r.grp,
                   before |-> file.g]

\* _write_single_node(group, data) with data a freestanding Array or
\* PointList and group any group of the file
WriteSingleNode ==
    /\ engine.op = "none"
    /\ \E group \in groups_of(file.g), name \in NodeNames \cup FreeNames \cup {DataName},
          class \in {"array", "pointlist"} :
            EngineCall("write_single_node", group, name, class, FALSE,
                       node_to_h5(file.g, group,
                                  [name |-> name, class |-> class, pay |-> NextPay]))
    /\ UNCHANGED <<uuids, tree, free, last, ncalls, resolved, listed, ow>>

\* _append_branch(group, data, appendover) with data the Root or a node of
\* the runtime tree and group the group the file keeps it in
AppendBranch ==
    /\ engine.op = "none"
    /\ \E d \in {RootNode} \cup tree.nodes, appendover \in BOOLEAN :
          /\ (<<tree.name>> \o d) \in DOMAIN file.g
          /\ EngineCall("append_branch", <<tree.name>> \o d, d, "", appendover,
                        append_branch(file.g, <<tree.name>> \o d,
                                      [tree EXCEPT !.pay = NextPay], d, appendover))
    /\ UNCHANGED <<uuids, tree, free, last, ncalls, resolved, listed, ow>>

NextEngine == WriteSingleNode \/ AppendBranch

SpecEngine == InitEngine /\ [][NextEngine]_vars

----------------------------------------------------------------------------
(* One diff-merge on its own: a file written from the runtime tree as it   *)
(* was before nodes were added to it or taken from it, and one call of     *)
(* write() in append or appendover mode, with no emdpath or with the       *)
(* emdpath of a group of that file                                         *)

\* the emdpaths of the root group and the data groups of a container
\* markers a group can carry that name no kind of data node
OtherMarkers == EMD_group_types \ EMD_data_group_types

\* files in which one group below the root group carries such a marker:
\* _append_branch is handed a group of any file and reads only the
\* emd_group_type attributes of its children
InitTagged ==
    /\ tree \in RuntimeTrees
    /\ \E ns \in Shapes :
          \E p \in ns, t \in OtherMarkers :
              file = [write(NoFile, 1, [tree EXCEPT !.nodes = ns, !.pay = 1], RootNode,
                            "w", NoPath, "True").file
                        EXCEPT !.g[<<tree.name>> \o p].tag = t]
    /\ uuids = 1
    /\ free = [n \in FreeNames |-> [rooted |-> FALSE, haspath |-> FALSE]]
    /\ last = NoCall
    /\ ncalls = 1
    /\ resolved = NoQuery
    /\ listed = NoList
    /\ ow = NoOverwrite
    /\ engine = NoEngine

NextTagged == AppendBranch

SpecTagged == InitTagged /\ [][NextTagged]_vars

emdpaths_of(g) ==
    {PathArg(join(p)) : p \in {q \in DOMAIN g : g[q].kind = "group" /\ g[q].tag # NoTag}}

MergeCall ==
    /\ ~last.called
    /\ \E d \in {RootNode} \cup tree.nodes, mode \in {"a", "ao"},
          emdpath \in {NoPath} \cup emdpaths_of(file.g), tr \in ValidFlags :
            Call([tree EXCEPT !.pay = NextPay], d, FALSE, mode, emdpath, tr,
                 write(file, uuids + 1, [tree EXCEPT !.pay = NextPay], d, mode,
                       emdpath, tr))
    /\ UNCHANGED <<tree, free, resolved, listed, ow, engine>>

NextMerge == MergeCall

SpecMerge == InitEngine /\ [][NextMerge]_vars

----------------------------------------------------------------------------
(* What the claims speak of *)

\* a group holding a data node: tagged with a recognized data-node kind
IsDataGroup(g, p) ==
    p \in DOMAIN g /\ g[p].kind = "group" /\ g[p].tag \in EMD_data_group_types

\* the tagged groups of a container: their places and their kinds
tagged_groups(g) ==
    {<<p, g[p].tag>> : p \in {q \in DOMAIN g : g[q].kind = "group" /\ g[q].tag # NoTag}}

\* the names of the data groups directly inside the group at p
data_groups_in(g, p) == {k \in keys(g, p) : IsDataGroup(g, Append(p, k))}

\* where the file keeps the runtime node d of the last call's tree
Pos(d) == <<last.tree.name>> \o d

\* the payload of the data node stored at p
HasPayload(g, p, v) ==
    Append(p, DataName) \in DOMAIN g /\ g[Append(p, DataName)].val = v

\* the runtime nodes the last call is to write: the node itself unless the
\* flag excludes it, and the nodes below it unless the flag excludes them
Covered ==
    (IF last.flag \in {"True", "False"} /\ last.data # RootNode
     THEN {last.data} ELSE {})
    \cup (IF last.flag \in {"True", "None"}
          THEN {n \in last.tree.nodes : n # last.data /\ IsPrefix(last.data, n)}
          ELSE {})

\* the file with its identifier blanked
NoUUID(f) == [f EXCEPT !.header.UUID = 0]

----------------------------------------------------------------------------
(* C1: appending the same rooted tree twice (append mode, whole tree, no   *)
(* emdpath) to a path that held no file leaves the file with the same      *)
(* tagged groups, at the same places, as appending it once.                *)

\* the first of the two calls, on the path with no file
C1_FirstAppend ==
    write(NoFile, last.before.header.UUID, [last.tree EXCEPT !.pay = last.tree.pay - 1],
          RootNode, last.mode, NoPath, "True")

\* the last call was the second of two such appends
C1_SecondAppend ==
    /\ last.called /\ ~last.rootless /\ last.data = RootNode
    /\ last.mode \in appendmode /\ last.flag = "True" /\ ~last.emdpath.given
    /\ last.tree.pay > 1
    /\ last.before.exists
    /\ last.before = C1_FirstAppend.file

C1_AppendIdempotent ==
    C1_SecondAppend => tagged_groups(file.g) = tagged_groups(last.before.g)

C1_Witness ==
    /\ C1_SecondAppend
    /\ last.err = "none"
    /\ \E n \in tree.nodes : Len(n) = 2
    /\ \A n \in tree.nodes : IsDataGroup(file.g, Pos(n))

----------------------------------------------------------------------------
(* C2: for every runtime node the call writes whose place in the file      *)
(* already holds a data group, append mode leaves the stored payload as it *)
(* was and appendover mode leaves the runtime payload there.               *)

C2_AppendKeepsAppendoverReplaces ==
    (/\ last.called /\ ~last.emdpath.given /\ last.flag \in ValidFlags
     /\ last.mode \in appendmode \cup appendovermode
     /\ is_EMD_file(last.before))
    => \A n \in Covered :
          IsDataGroup(last.before.g, Pos(n)) =>
             /\ last.mode \in appendmode =>
                   \A v \in 0..MaxCalls :
                      HasPayload(last.before.g, Pos(n), v) => HasPayload(file.g, Pos(n), v)
             /\ last.mode \in appendovermode => HasPayload(file.g, Pos(n), last.tree.pay)

----------------------------------------------------------------------------
(* C3: after _overwrite_single_node has replaced the payload of a stored   *)
(* node, every data child the node had in the file, with all that was      *)
(* below it, is at the same place and unchanged.                           *)

\* the last call did nothing but overwrite the node it was given: appendover
\* mode, node only, and the node was in the file
C3_Overwrote ==
    /\ last.called /\ last.err = "none" /\ ~last.emdpath.given
    /\ last.mode \in appendovermode /\ last.flag = "False"
    /\ last.data # RootNode
    /\ is_EMD_file(last.before)
    /\ IsDataGroup(last.before.g, Pos(last.data))

C3_SubtreePreserved ==
    C3_Overwrote =>
        /\ HasPayload(file.g, Pos(last.data), last.tree.pay)
        /\ \A p \in DOMAIN last.before.g :
              (/\ Len(p) > Len(Pos(last.data))
               /\ IsPrefix(Pos(last.data), p)
               /\ IsDataGroup(last.before.g, SubSeq(p, 1, Len(Pos(last.data)) + 1)))
              => p \in DOMAIN file.g /\ file.g[p] = last.before.g[p]

C3_Witness ==
    /\ C3_Overwrote
    /\ ~HasPayload(last.before.g, Pos(last.data), last.tree.pay)
    /\ \E p \in DOMAIN last.before.g :
          /\ Len(p) = Len(Pos(last.data)) + 2
          /\ IsPrefix(Pos(last.data), p)
          /\ IsDataGroup(last.before.g, p)
          /\ IsDataGroup(last.before.g, Front(p))

----------------------------------------------------------------------------
(* C4: the resolver answers Exact(g) exactly when every name of the tree   *)
(* path (empty names discarded) is a group and g is the last of them,      *)
(* OneBeyond(p) exactly when all names but the last are groups, the last   *)
(* is absent and p is the group of the name before it, and Invalid         *)
(* otherwise.                                                              *)

C4_AreGroups(g, rootgroup, names) ==
    \A i \in 1..Len(names) :
        /\ (rootgroup \o SubSeq(names, 1, i)) \in DOMAIN g
        /\ g[rootgroup \o SubSeq(names, 1, i)].kind = "group"

C4_Expected(g, rootgroup, names) ==
    IF C4_AreGroups(g, rootgroup, names) THEN Exact(rootgroup \o names)
    ELSE IF /\ C4_AreGroups(g, rootgroup, Front(names))
            /\ (rootgroup \o names) \notin DOMAIN g
    THEN OneBeyond(rootgroup \o Front(names))
    ELSE Invalid

C4_ResolverThreeWay ==
    resolved.asked =>
        resolved.where = C4_Expected(file.g, <<RootName>>,
                                     SelectSeq(split(resolved.treepath), NonEmpty))

----------------------------------------------------------------------------
(* C5: a rootless node written with success to a path that held no file    *)
(* is rootless again, and the file has one top-level group, of the node's  *)
(* name, which holds one data group of the node's name.                    *)

\* the file the last call would have made of a path holding no file, in
\* write mode
FreshWrite ==
    write(NoFile, last.before.header.UUID, last.tree, last.data, "w", NoPath,
          last.flag)

\* the last call wrote a freestanding node, with success, to a new file
C5_RootlessToNewFile ==
    /\ last.called /\ last.rootless /\ ~last.rooted_before
    /\ ~last.before.exists
    /\ last.err = "none"

\* the claim as it stands: whatever the inclusion flag
C5_RootlessRoundTrip ==
    C5_RootlessToNewFile =>
        /\ ~free[last.tree.name].rooted
        /\ keys(file.g, <<>>) = {last.tree.name}
        /\ data_groups_in(file.g, <<last.tree.name>>) = {last.tree.name}

\* C5, amended: the node is rootless again and the file has one top-level
\* group, of the node's name and tagged as a root; that group holds one data
\* group of the node's name when the flag includes the node (True, False),
\* and no data group when the flag is None (subtree only).
C5_RootlessRoundTripByFlag ==
    C5_RootlessToNewFile =>
        /\ ~free[last.tree.name].rooted
        /\ keys(file.g, <<>>) = {last.tree.name}
        /\ file.g[<<last.tree.name>>].tag = "root"
        /\ data_groups_in(file.g, <<last.tree.name>>) =
              IF last.flag \in {"True", "False"} THEN {last.tree.name} ELSE {}

C5_Witness ==
    /\ C5_RootlessToNewFile
    /\ last.flag = "True"
    /\ HasPayload(file.g, <<last.tree.name, last.tree.name>>, last.tree.pay)

----------------------------------------------------------------------------
(* C6: when a call with a rootless node raises after the synthetic Root    *)
(* was attached, the node is rootless again when the caller sees the       *)
(* exception.                                                              *)

C6_RootlessAfterFailure ==
    (/\ last.called /\ last.rootless /\ ~last.rooted_before
     /\ last.err # "none")
    => ~free[last.tree.name].rooted

----------------------------------------------------------------------------
(* C7: a call in write mode on a path where a file exists raises and       *)
(* leaves the file as it was, whatever data, flag and emdpath.             *)

C7_WriteModeExclusive ==
    (last.called /\ last.mode \in writemode /\ last.before.exists)
    => last.err # "none" /\ file = last.before

----------------------------------------------------------------------------
(* C8: a call in overwrite mode on a path where a file exists succeeds,    *)
(* and the file then holds the groups of the new tree and no others,       *)
(* whatever data, flag and emdpath.                                        *)

C8_OverwriteReplaces ==
    (/\ last.called /\ last.mode \in overwritemode /\ last.before.exists
     /\ last.flag \in ValidFlags)
    => last.err = "none" /\ file.g = FreshWrite.file.g

----------------------------------------------------------------------------
(* C9: a call in append or appendover mode on a path holding no file       *)
(* leaves the file that write mode leaves with the same arguments, the     *)
(* UUID apart, and has the same outcome.                                   *)

C9_AppendToNoFile ==
    /\ last.called /\ last.mode \in appendmode \cup appendovermode
    /\ ~last.before.exists

C9_AppendLikeWrite ==
    C9_AppendToNoFile =>
        /\ last.err = FreshWrite.err
        /\ NoUUID(file) = NoUUID(FreshWrite.file)

C9_Witness ==
    /\ C9_AppendToNoFile
    /\ last.mode \in appendovermode /\ last.flag = "True" /\ last.err = "none"
    /\ file.exists /\ is_EMD_file(file)
    /\ \E n \in last.tree.nodes :
          Len(n) = 2 /\ IsPrefix(last.data, n) /\ last.data # n
          /\ \E p \in DOMAIN file.g : Len(p) > 1 /\ Last(p) = Last(n) /\ IsDataGroup(file.g, p)

----------------------------------------------------------------------------
(* C10: a call with an unrecognized mode, or with an inclusion flag that   *)
(* is none of True, False, None, raises and leaves the path as it was: no  *)
(* file made, removed or changed, whatever the emdpath.                    *)

C10_InvalidRaisesFirst ==
    (last.called /\ (last.mode \notin allmodes \/ last.flag \notin ValidFlags))
    => last.err # "none" /\ file = last.before

----------------------------------------------------------------------------
(* C11: a call in append or appendover mode on a path holding a file       *)
(* without the EMD header raises, and the file is as it was before.        *)

C11_AppendToForeignFile ==
    /\ last.called /\ last.mode \in appendmode \cup appendovermode
    /\ last.before.exists /\ ~is_EMD_file(last.before)

C11_NotEmdRaises ==
    C11_AppendToForeignFile => last.err # "none" /\ file = last.before

C11_Witness ==
    /\ C11_AppendToForeignFile
    /\ last.mode \in appendovermode /\ last.flag = "True" /\ ~last.emdpath.given
    /\ last.data = RootNode /\ last.tree.nodes # {}
    /\ last.err = "AssertionError"

----------------------------------------------------------------------------
(* C12: on a file written in write mode from the single rootless node X,   *)
(* appending (append mode) a second rootless node Y leaves one Root group, *)
(* X, holding the data groups X and Y, with X's payload as first stored.   *)

\* the file write mode makes of the rootless, childless node x
C12_FileOf(x) ==
    write(NoFile, last.before.header.UUID, synthetic_tree(x, last.tree.pay - 1), <<x>>,
          "w", NoPath, "True").file

\* the last call appended, with success or not, the rootless node
\* Y = last.tree.name to the file made of X = x
C12_Appended(x) ==
    /\ last.called /\ last.rootless /\ ~last.rooted_before
    /\ x # last.tree.name
    /\ last.mode \in appendmode /\ last.flag = "True"
    /\ last.tree.pay > 1
    /\ last.before = C12_FileOf(x)

\* both nodes are data groups of the one Root group x, the first as it was
C12_Siblings(x) ==
    /\ last.err = "none"
    /\ keys(file.g, <<>>) = {x}
    /\ data_groups_in(file.g, <<x>>) = {x, last.tree.name}
    /\ HasPayload(file.g, <<x, last.tree.name>>, last.tree.pay)
    /\ \A p \in DOMAIN last.before.g : p \in DOMAIN file.g /\ file.g[p] = last.before.g[p]

\* the claim as it stands: however the call names the place (no emdpath, or
\* the emdpath of the Root group)
C12_ScenarioSiblings ==
    \A x \in FreeNames :
        (C12_Appended(x) /\ last.emdpath \in {NoPath, PathArg(x)}) => C12_Siblings(x)

\* C12, amended: with emdpath naming the Root group X the node Y becomes a
\* sibling of X inside that group and X is as first stored; with no emdpath
\* the file gets a second Root group, named Y and holding the data group Y,
\* and the Root group X is as it was.
C12_ScenarioByEmdpath ==
    \A x \in FreeNames :
        /\ (C12_Appended(x) /\ last.emdpath = PathArg(x)) => C12_Siblings(x)
        /\ (C12_Appended(x) /\ last.emdpath = NoPath) =>
              /\ last.err = "none"
              /\ keys(file.g, <<>>) = {x, last.tree.name}
              /\ data_groups_in(file.g, <<x>>) = {x}
              /\ data_groups_in(file.g, <<last.tree.name>>) = {last.tree.name}
              /\ \A p \in DOMAIN last.before.g :
                    p \in DOMAIN file.g /\ file.g[p] = last.before.g[p]

C12_Witness ==
    \E x \in FreeNames :
        /\ C12_Appended(x) /\ last.emdpath = PathArg(x)
        /\ HasPayload(file.g, <<x, x>>, last.tree.pay - 1)
        /\ IsDataGroup(file.g, <<x, last.tree.name>>)

----------------------------------------------------------------------------
(* C13: at every point between two steps of _overwrite_single_node the     *)
(* parent group holds the old group whole (old payload, all it had below   *)
(* it; under its own name or the temporary one), or the new group with the *)
(* new payload and every data child the old group had; and never a new     *)
(* group alone that lacks one of those children.                           *)

\* all that the group at `at` holds, as seen from the node's place
C13_Held(g, at) == relocated(g, at, ow_group)

\* the old group is in the parent, whole, under the name `at`
C13_OldGroupAt(at) ==
    at \in DOMAIN file.g /\ C13_Held(file.g, at) = C13_Held(ow.before, ow_group)

\* the new group is in the parent with the new payload and every data child
\* of the old group, each with all below it
C13_NewGroupWhole ==
    /\ HasPayload(file.g, ow_group, NextPay)
    /\ \A k \in data_keys(ow.before, ow_group) :
          /\ Append(ow_group, k) \in DOMAIN file.g
          /\ relocated(file.g, Append(ow_group, k), Append(ow_group, k))
                = relocated(ow.before, Append(ow_group, k), Append(ow_group, k))

C13_OldOrNewAtEveryStep ==
    ow.pc # "idle" =>
        /\ C13_OldGroupAt(ow_group) \/ C13_OldGroupAt(ow_tmp) \/ C13_NewGroupWhole
        /\ ~(/\ ow_tmp \notin DOMAIN file.g
             /\ HasPayload(file.g, ow_group, NextPay)
             /\ \E k \in data_keys(ow.before, ow_group) :
                   Append(ow_group, k) \notin DOMAIN file.g)

\* between two turns of the loop over the links: one child linked, one not
C13_Witness ==
    /\ ow.pc = "written"
    /\ Cardinality(data_keys(ow.before, ow_group)) = 2
    /\ Cardinality(ow.todo) = 1
    /\ HasPayload(file.g, ow_group, NextPay)
    /\ ow_tmp \in DOMAIN file.g

----------------------------------------------------------------------------
(* C14: a fresh write of a node D that is not the root stores, under the   *)
(* Root group: with tree=True, D and below it D's whole runtime subtree;   *)
(* with tree=False, D alone; with tree=None, no group for D, and D's       *)
(* subtree with D's children directly inside the Root group.               *)

\* the last call made a new file (none was there, or overwrite mode removed it)
MadeNewFile ==
    /\ last.called /\ last.err = "none"
    /\ ~last.before.exists \/ (last.mode \in overwritemode /\ ~last.emdpath.given)

\* the runtime nodes strictly below d, and the path of n as seen from d
Below(d) == {n \in last.tree.nodes : n # d /\ IsPrefix(d, n)}
RelativeTo(d, n) == SubSeq(n, Len(d) + 1, Len(n))

\* the places of all data groups of the file
AllDataGroups(g) == {p \in DOMAIN g : IsDataGroup(g, p)}

C14_FreshNode == MadeNewFile /\ last.data # RootNode /\ last.flag \in ValidFlags

C14_Expected ==
    IF last.flag = "True"
    THEN {<<last.tree.name, Last(last.data)>> \o RelativeTo(last.data, n) :
             n \in Below(last.data) \cup {last.data}}
    ELSE IF last.flag = "False"
    THEN {<<last.tree.name, Last(last.data)>>}
    ELSE {<<last.tree.name>> \o RelativeTo(last.data, n) : n \in Below(last.data)}

C14_InclusionOnFreshWrite ==
    C14_FreshNode =>
        /\ AllDataGroups(file.g) = C14_Expected
        /\ \A p \in C14_Expected : HasPayload(file.g, p, last.tree.pay)

C14_Witness ==
    /\ C14_FreshNode /\ last.flag = "None"
    /\ \E n \in Below(last.data) : Len(RelativeTo(last.data, n)) = 2
    /\ ~IsDataGroup(file.g, <<last.tree.name, Last(last.data)>>)

----------------------------------------------------------------------------
(* C15: a fresh write (whole tree, the default) of a rooted node D that is *)
(* not the root, at any depth, makes a file with one tree: the Root group  *)
(* of D's root with the root's metadata, D directly inside it and D's      *)
(* branch below D; no group for D's runtime ancestors or siblings.         *)

C15_FreshRootedNode ==
    MadeNewFile /\ ~last.rootless /\ last.data # RootNode /\ last.flag = "True"

\* the names of the metadata bundles stored in the root group
C15_StoredBundles ==
    {k \in keys(file.g, <<last.tree.name, BundleName>>) :
        file.g[<<last.tree.name, BundleName, k>>].tag = "metadata"}

C15_NodeDirectlyUnderRoot ==
    C15_FreshRootedNode =>
        /\ keys(file.g, <<>>) = {last.tree.name}
        /\ file.g[<<last.tree.name>>].tag = "root"
        /\ C15_StoredBundles = last.tree.md
        /\ data_groups_in(file.g, <<last.tree.name>>) = {Last(last.data)}
        /\ \A n \in Below(last.data) :
              IsDataGroup(file.g, <<last.tree.name, Last(last.data)>>
                                      \o RelativeTo(last.data, n))
        /\ Cardinality(AllDataGroups(file.g)) = Cardinality(Below(last.data)) + 1

C15_Witness ==
    /\ C15_FreshRootedNode
    /\ Len(last.data) = 2 /\ Below(last.data) # {} /\ last.tree.md # {}
    /\ IsDataGroup(file.g, <<last.tree.name, Last(last.data)>>)
    /\ ~IsDataGroup(file.g, <<last.tree.name>> \o last.data)

----------------------------------------------------------------------------
(* C16: the header attributes are written when, and only when, a call      *)
(* makes a brand-new file, with a UUID no file had before; a call that     *)
(* appends to the file that is there leaves every header attribute as it   *)
(* was.                                                                    *)

\* the header _write_header leaves, apart from the UUID
C16_IsEmdHeader(h) ==
    h.emd_group_type = "file" /\ h.version_major = 1 /\ h.version_minor = 0

C16_HeaderWrittenOnce ==
    last.called =>
        /\ (last.before.exists /\ file.header # last.before.header) =>
              last.mode \in overwritemode /\ ~last.emdpath.given
        /\ (file.exists /\ (~last.before.exists \/ file.header # last.before.header)) =>
              /\ C16_IsEmdHeader(file.header)
              /\ file.header.UUID = uuids
              /\ last.before.header.UUID < uuids
        /\ (last.before.exists /\ last.mode \in appendmode \cup appendovermode) =>
              file.header = last.before.header

\* an appendover that changed the groups of a file and not its header
C16_Witness ==
    /\ last.called /\ last.err = "none"
    /\ last.mode \in appendovermode /\ is_EMD_file(last.before)
    /\ file.g # last.before.g
    /\ file.header = last.before.header /\ file.header.UUID = 1

----------------------------------------------------------------------------
(* C17: an append (no emdpath) of a tree whose Root's name is not among    *)
(* the file's root groups adds one top-level group, tagged root, holding   *)
(* what a fresh write of the same data and flag holds, and leaves every    *)
(* group that was in the file, with all below it, as it was.               *)

C17_NewRootAppended ==
    /\ last.called /\ last.mode \in appendmode \cup appendovermode
    /\ ~last.emdpath.given /\ last.flag \in ValidFlags
    /\ is_EMD_file(last.before)
    /\ last.tree.name \notin get_EMD_rootgroups(last.before)

C17_OneNewRootGroup ==
    C17_NewRootAppended =>
        /\ last.err = "none"
        /\ last.tree.name \notin keys(last.before.g, <<>>)
        /\ keys(file.g, <<>>) = keys(last.before.g, <<>>) \cup {last.tree.name}
        /\ file.g[<<last.tree.name>>].tag = "root"
        /\ \A p \in DOMAIN last.before.g :
              p \in DOMAIN file.g /\ file.g[p] = last.before.g[p]
        /\ (DOMAIN file.g) \ (DOMAIN last.before.g) = DOMAIN FreshWrite.file.g
        /\ \A p \in DOMAIN FreshWrite.file.g : file.g[p] = FreshWrite.file.g[p]

C17_Witness ==
    /\ C17_NewRootAppended
    /\ ~last.rootless /\ last.data # RootNode /\ last.flag = "None"
    /\ Below(last.data) # {}
    /\ Cardinality(keys(file.g, <<>>)) = 2
    /\ AllDataGroups(last.before.g) # {}

----------------------------------------------------------------------------
(* C18: with an emdpath, the call fails on the path only when the resolver *)
(* answers Invalid; when it answers Exact or OneBeyond the call goes on    *)
(* and writes at the group the resolver returned, whether the runtime Root *)
(* is in the file or not.                                                  *)

\* the last call appended with an emdpath to an EMD file
C18_WithEmdpath ==
    /\ last.called /\ last.emdpath.given /\ last.flag \in ValidFlags
    /\ is_EMD_file(last.before)

C18_RootOnDisk == last.tree.name \in get_EMD_rootgroups(last.before)

\* the root group the emdpath is resolved against, and the resolver's answer
C18_RootGroup ==
    IF C18_RootOnDisk THEN <<last.tree.name>>
    ELSE <<emdpath_rootname(last.emdpath.s)>>

C18_Where ==
    validate_treepath(last.before.g, C18_RootGroup, emdpath_treepath(last.emdpath.s))

\* the call carried on from the group the resolver returned
C18_AtResolvedGroup ==
    IF C18_RootOnDisk
    THEN target_B(last.before.g, Exact(C18_Where.grp), last.tree, last.data, last.flag,
                  last.mode \in appendovermode)
    ELSE append_at_where(last.before.g, Exact(C18_Where.grp), last.tree, last.data,
                         last.flag)

C18_FatalOnlyOnInvalid ==
    (/\ C18_WithEmdpath
     /\ Last(C18_RootGroup) \in keys(last.before.g, <<>>)
     /\ C18_Where.valid)
    => /\ last.err = C18_AtResolvedGroup.err
       /\ file.g = C18_AtResolvedGroup.g

----------------------------------------------------------------------------
(* C19: in diffmerge A and B every runtime root bundle that the on-disk    *)
(* root lacks is added, one that is there is replaced under appendover     *)
(* and left as it was under append, on-disk bundles with no runtime        *)
(* counterpart stay, and the step raises nothing, whether or not the       *)
(* on-disk root has bundles already.                                       *)

\* the last call reached the reconciliation of the root metadata
C19_Reconciles ==
    /\ last.called /\ last.flag \in ValidFlags
    /\ is_EMD_file(last.before)
    /\ last.tree.name \in get_EMD_rootgroups(last.before)
    /\ \/ ~last.emdpath.given /\ last.mode \in appendmode \cup appendovermode
       \/ last.emdpath.given /\ C18_Where.valid /\ C18_Where.inside

\* where the root group keeps the bundle b
C19_Bundle(b) == <<last.tree.name, BundleName, b>>

C19_RootMetadataReconciled ==
    C19_Reconciles =>
        /\ append_root_metadata(last.before.g, <<last.tree.name>>, last.tree,
                                last.mode \in appendovermode).err = "none"
        /\ \A b \in last.tree.md :
              /\ C19_Bundle(b) \in DOMAIN file.g
              /\ file.g[C19_Bundle(b)].tag = "metadata"
              /\ C19_Bundle(b) \notin DOMAIN last.before.g =>
                    file.g[C19_Bundle(b)].val = last.tree.pay
              /\ (C19_Bundle(b) \in DOMAIN last.before.g /\ last.mode \in appendovermode) =>
                    file.g[C19_Bundle(b)].val = last.tree.pay
              /\ (C19_Bundle(b) \in DOMAIN last.before.g /\ last.mode \notin appendovermode) =>
                    file.g[C19_Bundle(b)] = last.before.g[C19_Bundle(b)]
        /\ \A k \in keys(last.before.g, <<last.tree.name, BundleName>>) \ last.tree.md :
              /\ C19_Bundle(k) \in DOMAIN file.g
              /\ file.g[C19_Bundle(k)] = last.before.g[C19_Bundle(k)]

----------------------------------------------------------------------------
(* C20: a list of Roots of distinct names written in write or overwrite    *)
(* mode leaves a file with one top-level root group per Root of the list,  *)
(* each with its tree, and nothing else: in overwrite mode the file that   *)
(* was there is removed once, before the first Root, and not between the   *)
(* Roots.                                                                  *)

\* the last call wrote a list of Roots in write mode on a free path, or in
\* overwrite mode
C20_ListWritten ==
    /\ listed.called /\ ~listed.emdpath.given /\ listed.flag \in ValidFlags
    /\ \/ listed.mode \in writemode /\ ~listed.before.exists
       \/ listed.mode \in overwritemode
    /\ \A i \in 1..Len(listed.roots) : \A j \in 1..Len(listed.roots) :
          i # j => listed.roots[i].name # listed.roots[j].name

\* the groups a fresh write of the i-th Root of the list makes
C20_TreeOf(i) ==
    write(NoFile, 0, listed.roots[i], RootNode, "w", NoPath, listed.flag).file.g

C20_OneRootGroupPerRoot ==
    C20_ListWritten =>
        /\ listed.err = "none"
        /\ is_EMD_file(file)
        /\ file.header.UUID = uuids /\ listed.before.header.UUID < uuids
        /\ keys(file.g, <<>>) = {listed.roots[i].name : i \in 1..Len(listed.roots)}
        /\ DOMAIN file.g = UNION {DOMAIN C20_TreeOf(i) : i \in 1..Len(listed.roots)}
        /\ \A i \in 1..Len(listed.roots) :
              /\ file.g[<<listed.roots[i].name>>].tag = "root"
              /\ \A p \in DOMAIN C20_TreeOf(i) : file.g[p] = C20_TreeOf(i)[p]

\* overwrite mode on a file that held data: both Roots are there with their nodes
C20_Witness ==
    /\ C20_ListWritten /\ listed.mode \in overwritemode /\ listed.flag = "True"
    /\ is_EMD_file(listed.before) /\ AllDataGroups(listed.before.g) # {}
    /\ \A i \in 1..Len(listed.roots) :
          /\ listed.roots[i].nodes # {}
          /\ data_groups_in(file.g, <<listed.roots[i].name>>) # {}
    /\ Len(listed.roots) = 2

----------------------------------------------------------------------------
(* C21: to_h5(parentGroup) of an Array or a PointList creates one new      *)
(* child of parentGroup, a group named after the node and tagged with its  *)
(* kind, puts every dataset it writes inside that group and returns it;    *)
(* and the name _get_constructor_args reads back from the group is the     *)
(* node's name.                                                            *)

\* the last call serialized a freestanding node, with success
C21_Serialized == engine.op = "write_single_node" /\ engine.err = "none"

\* the objects the call added to the file, and the node's own group
C21_New == (DOMAIN file.g) \ (DOMAIN engine.before)
C21_NodeGroup == Append(engine.group, engine.data)

C21_SerializationContract ==
    C21_Serialized =>
        /\ \A p \in DOMAIN engine.before : p \in DOMAIN file.g /\ file.g[p] = engine.before[p]
        /\ C21_New \cap members(file.g, engine.group) = {C21_NodeGroup}
        /\ file.g[C21_NodeGroup].kind = "group"
        /\ file.g[C21_NodeGroup].tag = engine.class
        /\ engine.class \in EMD_data_group_types
        /\ \A p \in C21_New : IsPrefix(C21_NodeGroup, p)
        /\ \E p \in C21_New : file.g[p].kind = "dataset"
        /\ engine.grp = C21_NodeGroup
        /\ constructor_name(engine.grp) = engine.data

\* a PointList serialized into the group of a stored node
C21_Witness ==
    /\ C21_Serialized /\ engine.class = "pointlist"
    /\ IsDataGroup(engine.before, engine.group)
    /\ \A i \in 1..Len(Fields) :
          /\ Append(C21_NodeGroup, Fields[i]) \in DOMAIN file.g
          /\ file.g[Append(C21_NodeGroup, Fields[i])].kind = "dataset"

----------------------------------------------------------------------------
(* C22: the resolver discards every empty segment of the tree path: a tree *)
(* path with more "/" in it (leading, trailing or doubled) has the outcome *)
(* and the group of the same path with none but the separating ones.       *)

\* the tree path with its names separated by one "/" each and no other
C22_Canonical(treepath) == join(SelectSeq(split(treepath), NonEmpty))

C22_ExtraSlashesIgnored ==
    resolved.asked =>
        resolved.where = validate_treepath(file.g, <<RootName>>,
                                           C22_Canonical(resolved.treepath))

----------------------------------------------------------------------------
(* C23: diffmerge A with data the Root itself (the Root is in the file, no *)
(* emdpath), whole tree (True) or subtree only (None): the call succeeds   *)
(* and every runtime node below the Root then has a data group at its      *)
(* place in the file.  Stated for a Root that carries no metadata.         *)

C23_RootMergedA ==
    /\ last.called /\ last.data = RootNode /\ ~last.emdpath.given
    /\ last.mode \in appendmode \cup appendovermode
    /\ last.flag \in {"True", "None"}
    /\ is_EMD_file(last.before)
    /\ last.tree.name \in get_EMD_rootgroups(last.before)
    /\ last.tree.md = {}

C23_WholeSubtreeReconciled ==
    C23_RootMergedA =>
        /\ last.err = "none"
        /\ \A n \in last.tree.nodes : IsDataGroup(file.g, Pos(n))

----------------------------------------------------------------------------
(* C24: diffmerge A when data's tree path resolves Exact: the payload of   *)
(* the group found is replaced if and only if the mode is appendover and   *)
(* the flag is not None (subtree only); data's children are reconciled by  *)
(* _append_branch if and only if the flag is not False (node only); append *)
(* with node only changes nothing after the root metadata.                 *)

\* the last call was a diffmerge A of a node that is not the Root
DiffmergeA ==
    /\ last.called /\ last.data # RootNode /\ ~last.emdpath.given
    /\ last.mode \in appendmode \cup appendovermode
    /\ last.flag \in ValidFlags
    /\ is_EMD_file(last.before)
    /\ last.tree.name \in get_EMD_rootgroups(last.before)

\* the file after the root metadata were reconciled, and the resolver's
\* answer for data's tree path
AfterMetadataA ==
    append_root_metadata(last.before.g, <<last.tree.name>>, last.tree,
                         last.mode \in appendovermode)
WhereA == validate_treepath(AfterMetadataA.g, <<last.tree.name>>, treepath_of(last.data))

C24_ExactA ==
    DiffmergeA /\ AfterMetadataA.err = "none" /\ WhereA.valid /\ WhereA.inside

\* the two steps as the claim has them
C24_Overwritten ==
    IF last.mode \in appendovermode /\ last.flag # "None"
    THEN overwrite_single_node(AfterMetadataA.g, WhereA.grp, last.tree, last.data)
    ELSE Ok(AfterMetadataA.g, WhereA.grp)

C24_Reconciled ==
    IF C24_Overwritten.err # "none" \/ last.flag = "False" THEN C24_Overwritten
    ELSE append_branch(C24_Overwritten.g, C24_Overwritten.grp, last.tree, last.data,
                       last.mode \in appendovermode)

C24_ExactBranching ==
    C24_ExactA =>
        /\ last.err = C24_Reconciled.err
        /\ file.g = C24_Reconciled.g
        /\ WhereA.grp = Pos(last.data)
        /\ last.err = "none" =>
              (HasPayload(file.g, Pos(last.data), last.tree.pay)
                 <=> (last.mode \in appendovermode /\ last.flag # "None"))
        /\ (last.flag = "False" /\ last.mode \in appendmode) =>
              last.err = "none" /\ file.g = AfterMetadataA.g
        /\ (last.flag # "False" /\ last.err = "none") =>
              \A c \in Below(last.data) :
                  Len(c) = Len(last.data) + 1 => IsDataGroup(file.g, Pos(c))

\* appendover of the whole tree: the payload is replaced and a child added
C24_Witness ==
    /\ C24_ExactA /\ last.err = "none"
    /\ last.mode \in appendovermode /\ last.flag = "True"
    /\ ~HasPayload(last.before.g, Pos(last.data), last.tree.pay)
    /\ HasPayload(file.g, Pos(last.data), last.tree.pay)
    /\ \E c \in Below(last.data) :
          ~IsDataGroup(last.before.g, Pos(c)) /\ IsDataGroup(file.g, Pos(c))

----------------------------------------------------------------------------
(* C25: diffmerge A when data's tree path resolves OneBeyond at the parent *)
(* group p: a new group for data is written as a child of p, with data's   *)
(* whole runtime subtree below it unless the flag is False (node only);    *)
(* under no flag are data's children written directly inside p.            *)

C25_OneBeyondA ==
    DiffmergeA /\ AfterMetadataA.err = "none" /\ WhereA.valid /\ ~WhereA.inside

\* the data groups the call added, and the runtime children of data
C25_NewDataGroups == AllDataGroups(file.g) \ AllDataGroups(AfterMetadataA.g)
C25_Children == {c \in Below(last.data) : Len(c) = Len(last.data) + 1}

\* what was in the file is as the metadata step left it
C25_RestUnchanged ==
    \A p \in DOMAIN AfterMetadataA.g :
        p \in DOMAIN file.g /\ file.g[p] = AfterMetadataA.g[p]

\* the claim as it stands
C25_FreshGroupUnderParent ==
    C25_OneBeyondA =>
        /\ last.err = "none"
        /\ WhereA.grp = Pos(Front(last.data))
        /\ C25_RestUnchanged
        /\ C25_NewDataGroups =
              {Pos(n) : n \in {last.data} \cup
                               (IF last.flag = "False" THEN {} ELSE Below(last.data))}
        /\ \A p \in C25_NewDataGroups : HasPayload(file.g, p, last.tree.pay)
        /\ \A c \in C25_Children :
              Last(c) # Last(last.data) => Append(WhereA.grp, Last(c)) \notin C25_NewDataGroups

\* a child of data has the name of something p holds already
C25_ChildNameTaken ==
    \E c \in C25_Children : Last(c) \in keys(AfterMetadataA.g, WhereA.grp)

\* C25, amended: with tree=True the new group of data is a child of p and
\* data's whole subtree is below it; with tree=False the new group alone is
\* written; with tree=None no group is written for data, and data's children
\* are written directly inside p, each with its subtree below it, the call
\* raising when p already holds something of a child's name.  What was in
\* the file stays as it was in every case.
C25_OneBeyondByFlag ==
    C25_OneBeyondA =>
        /\ WhereA.grp = Pos(Front(last.data))
        /\ C25_RestUnchanged
        /\ \A p \in C25_NewDataGroups : HasPayload(file.g, p, last.tree.pay)
        /\ last.flag = "True" =>
              /\ last.err = "none"
              /\ C25_NewDataGroups = {Pos(n) : n \in {last.data} \cup Below(last.data)}
        /\ last.flag = "False" =>
              /\ last.err = "none"
              /\ C25_NewDataGroups = {Pos(last.data)}
        /\ last.flag = "None" =>
              /\ (\A c \in C25_Children : Last(c) # Last(last.data)) =>
                    Pos(last.data) \notin DOMAIN file.g
              /\ (last.err # "none") <=> C25_ChildNameTaken
              /\ last.err = "none" =>
                    C25_NewDataGroups =
                       {WhereA.grp \o RelativeTo(last.data, n) : n \in Below(last.data)}

\* subtree only, one beyond: a child of data written inside p, with its own
\* child below it
C25_Witness ==
    /\ C25_OneBeyondA /\ last.flag = "None" /\ last.err = "none"
    /\ \E n \in Below(last.data) :
          /\ Len(RelativeTo(last.data, n)) = 2
          /\ IsDataGroup(file.g, WhereA.grp \o RelativeTo(last.data, n))

----------------------------------------------------------------------------
(* C26: diffmerge B when data, a node that is not the Root, has a tree     *)
(* path that resolves OneBeyond with the target group as its parent: a new *)
(* group for data is written as a child of the target group under True and *)
(* False, and under True data's subtree is written below that new group.   *)

\* the last call was a diffmerge B of a node that is not the Root
DiffmergeB ==
    /\ last.called /\ last.data # RootNode /\ last.emdpath.given
    /\ last.mode \in appendmode \cup appendovermode
    /\ last.flag \in ValidFlags
    /\ is_EMD_file(last.before)
    /\ last.tree.name \in get_EMD_rootgroups(last.before)

\* the resolver's answers for the emdpath and for data's tree path
TargetB ==
    validate_treepath(last.before.g, <<last.tree.name>>,
                      emdpath_treepath(last.emdpath.s))
SourceB == validate_treepath(AfterMetadataA.g, <<last.tree.name>>, treepath_of(last.data))

C26_OneBeyondB ==
    /\ DiffmergeB /\ TargetB.valid /\ TargetB.inside
    /\ AfterMetadataA.err = "none"
    /\ SourceB.valid /\ ~SourceB.inside /\ SourceB.grp = TargetB.grp

\* where the new group of data is to be
C26_NewGroup == Append(TargetB.grp, Last(last.data))

C26_FreshGroupUnderTarget ==
    (C26_OneBeyondB /\ last.flag \in {"True", "False"}) =>
        /\ last.err = "none"
        /\ IsDataGroup(file.g, C26_NewGroup)
        /\ HasPayload(file.g, C26_NewGroup, last.tree.pay)
        /\ last.flag = "True" =>
              \A n \in Below(last.data) :
                  IsDataGroup(file.g, C26_NewGroup \o RelativeTo(last.data, n))

----------------------------------------------------------------------------
(* C27: diffmerge B when the target group is strictly below the group of   *)
(* the source node, or data is the Root: if the runtime tree has no node   *)
(* at the path from the source to the target the call raises and no data   *)
(* node is overwritten or written; if it has one, the overwrite and the    *)
(* _append_branch are applied with that node at the target group.          *)

\* the last call was a diffmerge B whose target is in the file, with data
\* the Root, or a node found in the file strictly above the target
C27_TargetBelowSource ==
    /\ last.called /\ last.emdpath.given
    /\ last.mode \in appendmode \cup appendovermode
    /\ last.flag \in ValidFlags
    /\ is_EMD_file(last.before)
    /\ last.tree.name \in get_EMD_rootgroups(last.before)
    /\ TargetB.valid /\ TargetB.inside
    /\ AfterMetadataA.err = "none"
    /\ \/ last.data = RootNode
       \/ /\ SourceB.valid /\ SourceB.inside
          /\ SourceB.grp # TargetB.grp /\ IsPrefix(SourceB.grp, TargetB.grp)

\* the runtime node at the path from the source to the target: the one whose
\* place in the file is the target group
C27_SubNode == Tail(TargetB.grp)
C27_SubNodeExists == C27_SubNode = RootNode \/ C27_SubNode \in last.tree.nodes

\* the overwrite and the _append_branch with the sub-node at the target
C27_MergedAtTarget ==
    merge_at(AfterMetadataA.g, TargetB.grp, last.tree, C27_SubNode, last.flag,
             last.mode \in appendovermode)

C27_PathMismatch ==
    C27_TargetBelowSource =>
        /\ ~C27_SubNodeExists => last.err # "none" /\ file.g = AfterMetadataA.g
        /\ C27_SubNodeExists =>
              last.err = C27_MergedAtTarget.err /\ file.g = C27_MergedAtTarget.g

----------------------------------------------------------------------------
(* C28: _append_branch writes a child that is absent with its whole        *)
(* subtree: for every runtime child c of the node that has no tagged group *)
(* inside the node's group g, there is afterwards a group g/c.name and,    *)
(* for every runtime node d below c, a group at g/c.name/<path from c to   *)
(* d>; and nothing below c is written as a direct child of g.              *)

\* the runtime children of the node _append_branch was called with that had
\* no tagged group inside its group, and the runtime nodes below a node
C28_AbsentChildren ==
    {c \in tree.nodes :
        /\ Len(c) = Len(engine.data) + 1 /\ IsPrefix(engine.data, c)
        /\ Last(c) \notin tagged_keys(engine.before, engine.group)}
C28_BelowNode(c) == {d \in tree.nodes : d # c /\ IsPrefix(c, d)}

\* the objects the call added directly inside the group
C28_NewInGroup == members(file.g, engine.group) \ DOMAIN engine.before

C28_AbsentChildWithSubtree ==
    engine.op = "append_branch" =>
        \A c \in C28_AbsentChildren :
            /\ IsDataGroup(file.g, Append(engine.group, Last(c)))
            /\ \A d \in C28_BelowNode(c) :
                  /\ IsDataGroup(file.g, Append(engine.group, Last(c))
                                             \o SubSeq(d, Len(c) + 1, Len(d)))
                  /\ Append(engine.group, Last(d)) \in C28_NewInGroup =>
                        \E c2 \in C28_AbsentChildren : Last(c2) = Last(d)

----------------------------------------------------------------------------
(* C29: _append_branch in plain append mode goes on into the children that *)
(* are in the file already: every runtime node, at any depth below the     *)
(* node it was called with, whose ancestors up to that node all have their *)
(* groups in the file and which has none itself, gets a group at its       *)
(* place, and every group that was in the file keeps its payload.          *)

\* where the file keeps the runtime node n, seen from the group of the call
C29_Place(n) == engine.group \o SubSeq(n, Len(engine.data) + 1, Len(n))

\* the runtime nodes below the node of the call that are not in the file
\* while all their ancestors up to that node are
C29_Missing ==
    {n \in tree.nodes :
        /\ n # engine.data /\ IsPrefix(engine.data, n)
        /\ C29_Place(n) \notin DOMAIN engine.before
        /\ \A i \in (Len(engine.data) + 1)..(Len(n) - 1) :
              IsDataGroup(engine.before, C29_Place(SubSeq(n, 1, i)))}

C29_AppendRecurses ==
    (engine.op = "append_branch" /\ ~engine.appendover) =>
        /\ \A n \in C29_Missing :
              /\ IsDataGroup(file.g, C29_Place(n))
              /\ HasPayload(file.g, C29_Place(n), NextPay)
        /\ \A p \in DOMAIN engine.before :
              p \in DOMAIN file.g /\ file.g[p] = engine.before[p]

----------------------------------------------------------------------------
(* C30: _write_single_node(parentGroup, node) on a parent group that holds *)
(* a child of the node's name, tagged or not, fails with an error and      *)
(* leaves that child and all else in the file as it was.                   *)

C30_NameTaken ==
    /\ engine.op = "write_single_node"
    /\ engine.data \in keys(engine.before, engine.group)

C30_NeverReplaces ==
    C30_NameTaken => engine.err # "none" /\ file.g = engine.before

\* the name is that of a stored node with a child below it
C30_Witness ==
    /\ C30_NameTaken /\ engine.err = "ValueError"
    /\ IsDataGroup(file.g, Append(engine.group, engine.data))
    /\ data_groups_in(file.g, Append(engine.group, engine.data)) # {}
    /\ HasPayload(file.g, Append(engine.group, engine.data), 1)

----------------------------------------------------------------------------
(* C31: _write_tree(parentGroup, node) on a parent group just created      *)
(* mirrors the runtime subtree: the tagged groups below parentGroup (the   *)
(* parent's own metadata bundles apart) are, one for one, the runtime      *)
(* nodes below node, each at its path as seen from node; node itself is    *)
(* not written.                                                            *)

\* the last call made a new file and wrote into its new root group with
\* _write_tree alone: the Root with its whole tree, or a node, subtree only
C31_TreeWritten ==
    /\ MadeNewFile
    /\ \/ last.data = RootNode /\ last.flag = "True"
       \/ last.data # RootNode /\ last.flag = "None"

\* the places of the tagged groups below the group at p, its bundles apart
C31_TaggedBelow(p) ==
    {q \in DOMAIN file.g :
        /\ Len(q) > Len(p) /\ IsPrefix(p, q)
        /\ file.g[q].kind = "group" /\ file.g[q].tag # NoTag
        /\ ~IsPrefix(Append(p, BundleName), q)}

C31_Mirror == {<<last.tree.name>> \o RelativeTo(last.data, n) : n \in Below(last.data)}

C31_TreeMirrorsSubtree ==
    C31_TreeWritten =>
        /\ C31_TaggedBelow(<<last.tree.name>>) = C31_Mirror
        /\ Cardinality(C31_Mirror) = Cardinality(Below(last.data))
        /\ \A q \in C31_Mirror :
              IsDataGroup(file.g, q) /\ HasPayload(file.g, q, last.tree.pay)

\* the whole tree of a Root with metadata, three levels deep
C31_Witness ==
    /\ C31_TreeWritten /\ last.data = RootNode /\ last.tree.md # {}
    /\ \E n \in last.tree.nodes : Len(n) = 3 /\ IsDataGroup(file.g, Pos(n))

----------------------------------------------------------------------------
(* C32: _append_branch counts a child of the group that has a runtime      *)
(* child's name as already there only when its emd_group_type is one of    *)
(* the data-node kinds, the test _overwrite_single_node applies when it    *)
(* copies links; a child carrying any other marker is not taken for an     *)
(* existing data node, so the runtime child is written as a new group,     *)
(* which the taken name refuses, and the marked child stays as it was.     *)

\* the runtime children of the node _append_branch was called with whose
\* name, in the group, was that of a child carrying another marker
C32_OtherMarked ==
    {n \in tree.nodes :
        /\ Len(n) = Len(engine.data) + 1 /\ IsPrefix(engine.data, n)
        /\ (<<tree.name>> \o n) \in DOMAIN engine.before
        /\ engine.before[<<tree.name>> \o n].kind = "group"
        /\ engine.before[<<tree.name>> \o n].tag \in OtherMarkers}

C32_OnlyDataKindsCount ==
    (engine.op = "append_branch" /\ C32_OtherMarked # {}) =>
        /\ engine.err # "none"
        /\ \A n \in C32_OtherMarked :
              file.g[<<tree.name>> \o n] = engine.before[<<tree.name>> \o n]

----------------------------------------------------------------------------
(* C33: when write returns for a rootless node N, N's root reference and   *)
(* N's treepath are what they were before the call.                        *)

\* the step is a call with a node that had no Root, and the call returns
C33_RootlessReturns ==
    /\ ~last.called /\ last'.called
    /\ last'.rootless /\ ~last'.rooted_before
    /\ last'.err = "none"

C33_DetachRestores ==
    [][C33_RootlessReturns => free'[last'.tree.name] = free[last'.tree.name]]_vars

----------------------------------------------------------------------------
(* C34: after _overwrite_single_node the new group holds what the node's   *)
(* own serialization writes and, linked, every child of the old group      *)
(* whose emd_group_type is a data-node kind, each with all below it, and   *)
(* nothing else: the old group's datasets and its children that are not    *)
(* data groups are not carried over.                                       *)

\* the node written alone into the parent group, the old group out of the way
C34_Serialized ==
    write_single_node(delete(ow.before, ow_group), ow_parentgroup,
                      [tree EXCEPT !.pay = NextPay], ow.data).g

\* what the old group's data children held, themselves included
C34_Carried ==
    {q \in subtree(ow.before, ow_group) :
        \E k \in data_groups_in(ow.before, ow_group) : IsPrefix(Append(ow_group, k), q)}

\* children of the old group that are groups, but no data groups
C34_OtherGroups ==
    {k \in keys(ow.before, ow_group) :
        /\ ow.before[Append(ow_group, k)].kind = "group"
        /\ ~IsDataGroup(ow.before, Append(ow_group, k))}

C34_RelinksDataChildren ==
    ow.pc = "done" =>
        /\ subtree(file.g, ow_group) = subtree(C34_Serialized, ow_group) \cup C34_Carried
        /\ \A q \in subtree(C34_Serialized, ow_group) : file.g[q] = C34_Serialized[q]
        /\ \A q \in C34_Carried : file.g[q] = ow.before[q]
        /\ \A k \in C34_OtherGroups : Append(ow_group, k) \notin DOMAIN file.g

\* the old group held a data child and a group that was none
C34_Witness ==
    /\ ow.pc = "done"
    /\ C34_OtherGroups # {}
    /\ data_groups_in(ow.before, ow_group) # {}
    /\ HasPayload(file.g, ow_group, NextPay)

----------------------------------------------------------------------------
(* C35: appending is idempotent.  When the file's root group holds some of *)
(* the runtime tree's nodes and an append of the Root with its whole tree  *)
(* returns, the same append made again changes no tagged group of the      *)
(* file: none is added, none removed, none changes its kind.               *)

\* the last call appended the Root and its whole tree to a file whose root
\* group held nodes of the runtime tree only, and returned
C35_FirstAppend ==
    /\ last.called /\ last.err = "none"
    /\ last.data = RootNode /\ last.mode = "a" /\ last.flag = "True"
    /\ ~last.emdpath.given
    /\ \A q \in DOMAIN last.before.g :
          IsDataGroup(last.before.g, q) =>
              \E n \in last.tree.nodes : q = Pos(n)

\* the file after the same call made a second time
C35_SecondAppend ==
    write(file, uuids + 1, last.tree, RootNode, "a", NoPath, "True").file

C35_AppendIdempotent ==
    C35_FirstAppend => tagged_groups(C35_SecondAppend.g) = tagged_groups(file.g)

----------------------------------------------------------------------------
(* C36: a file written from a rooted node D that is not the Root can be    *)
(* appended to with the same node: write(path, D, mode='w') followed by    *)
(* write(path, D, mode='a') with the same flag returns without error and   *)
(* leaves the file's tagged groups as they were, at any depth of D: the    *)
(* place the first call gives D is the place the second looks D up at.     *)

\* the last call wrote the node D into a new file
C36_WrittenFromNode ==
    /\ MadeNewFile /\ last.mode = "w"
    /\ last.data # RootNode /\ last.flag \in ValidFlags
    /\ ~last.emdpath.given

\* the outcome of appending the same node, with the same flag, to that file
C36_AppendSame ==
    write(file, uuids + 1, last.tree, last.data, "a", NoPath, last.flag)

C36_AppendAfterWrite ==
    C36_WrittenFromNode =>
        /\ C36_AppendSame.err = "none"
        /\ tagged_groups(C36_AppendSame.file.g) = tagged_groups(file.g)

----------------------------------------------------------------------------
(* C37: _overwrite_single_node leaves no temporary group behind.  After an *)
(* append or appendover call that returns, no object of the file has a     *)
(* name that begins with '_tmp_', every group that was in the file still   *)
(* has every child name it had, and where the call was one overwrite and   *)
(* nothing else the parent group has exactly the child names it had.       *)

\* the last call was an append or appendover to a file holding the root,
\* and returned
C37_Merged ==
    /\ last.called /\ last.err = "none"
    /\ last.mode \in appendmode \cup appendovermode
    /\ is_EMD_file(last.before)
    /\ last.tree.name \in get_EMD_rootgroups(last.before)

\* the name begins with the prefix of the temporary group
C37_Temporary(name) ==
    Len(name) >= Len(TmpPrefix) /\ SubSeq(name, 1, Len(TmpPrefix)) = TmpPrefix

\* the call overwrote the group of data, found where data's tree path says,
\* and did nothing more
C37_OneOverwrite ==
    /\ C24_ExactA /\ last.mode \in appendovermode /\ last.flag = "False"
    /\ last.tree.md = {}

C37_NoTemporaryLeft ==
    C37_Merged =>
        /\ \A q \in DOMAIN file.g : \A i \in 1..Len(q) : ~C37_Temporary(q[i])
        /\ \A p \in groups_of(last.before.g) :
              p \in groups_of(file.g) /\ keys(last.before.g, p) \subseteq keys(file.g, p)
        /\ C37_OneOverwrite =>
              keys(file.g, Front(Pos(last.data))) = keys(last.before.g, Front(Pos(last.data)))

\* one overwrite of a group with a data child: a new payload, the child kept
C37_Witness ==
    /\ C37_Merged /\ C37_OneOverwrite
    /\ HasPayload(file.g, Pos(last.data), last.tree.pay)
    /\ ~HasPayload(last.before.g, Pos(last.data), last.tree.pay)
    /\ data_groups_in(file.g, Pos(last.data)) # {}

----------------------------------------------------------------------------
(* C38: an append or appendover call that raises because a path cannot be  *)
(* matched (data's tree path is not in the file's tree, source and target  *)
(* cannot be related, or the runtime node at the target is not found)      *)
(* leaves the file as it was before the call, the root's metadata bundles  *)
(* included.                                                               *)

\* the last call found the root in the file, got past the check of the
\* emdpath when one was given, and raised the exception of a path mismatch
C38_PathUnmatched ==
    /\ last.called /\ last.err = "Exception"
    /\ last.mode \in appendmode \cup appendovermode
    /\ last.flag \in ValidFlags
    /\ is_EMD_file(last.before)
    /\ last.tree.name \in get_EMD_rootgroups(last.before)
    /\ last.emdpath.given => TargetB.valid /\ TargetB.inside

C38_FailureLeavesFile ==
    C38_PathUnmatched => file = last.before

----------------------------------------------------------------------------
(* C39: append and appendover never remove stored data that has no runtime *)
(* counterpart.  After a call that returns, every data group that was in   *)
(* the file and whose place is that of no runtime node the call writes is  *)
(* still at its place, with its marker and its datasets as they were, also *)
(* when it was below a group that appendover replaced.                     *)

\* the runtime node whose place is the group the emdpath names
C39_TargetNode == SubSeq(TargetB.grp, 2, Len(TargetB.grp))

\* the nodes a call with node d and the call's flag writes
C39_WrittenFrom(d) ==
    (IF last.flag \in {"True", "False"} /\ d # RootNode THEN {d} ELSE {})
    \cup (IF last.flag \in {"True", "None"}
          THEN {n \in last.tree.nodes : n # d /\ IsPrefix(d, n)}
          ELSE {})

\* the runtime nodes the last call writes: from data on, and from the node
\* at the target on when an emdpath was given
C39_Written ==
    C39_WrittenFrom(last.data)
    \cup (IF last.emdpath.given /\ TargetB.valid /\ TargetB.inside
          THEN C39_WrittenFrom(C39_TargetNode) ELSE {})

\* the data group at q is as it was before the call, its datasets too
C39_Kept(q) ==
    /\ q \in DOMAIN file.g /\ file.g[q] = last.before.g[q]
    /\ \A k \in keys(last.before.g, q) :
          last.before.g[Append(q, k)].kind = "dataset" =>
              /\ Append(q, k) \in DOMAIN file.g
              /\ file.g[Append(q, k)] = last.before.g[Append(q, k)]

C39_NoStoredDataRemoved ==
    C37_Merged =>
        \A q \in AllDataGroups(last.before.g) :
            q \notin {Pos(n) : n \in C39_Written} => C39_Kept(q)

\* appendover replaced a group that held a data group the runtime tree has
\* no node for
C39_Witness ==
    /\ C37_Merged /\ last.mode \in appendovermode /\ last.data # RootNode
    /\ HasPayload(file.g, Pos(last.data), last.tree.pay)
    /\ ~HasPayload(last.before.g, Pos(last.data), last.tree.pay)
    /\ \E k \in data_groups_in(last.before.g, Pos(last.data)) :
          /\ Append(last.data, k) \notin last.tree.nodes
          /\ C39_Kept(Append(Pos(last.data), k))

----------------------------------------------------------------------------
(* C40: whatever write calls were made on the file, every object at its    *)
(* top level is a group marked as a root, the roots the file lists are     *)
(* exactly its top-level names, and no group below the top level is marked *)
(* as a root.                                                              *)

C40_TopLevel == {q \in DOMAIN file.g : Len(q) = 1}

C40_RootTagging ==
    /\ \A q \in C40_TopLevel : file.g[q].kind = "group" /\ file.g[q].tag = "root"
    /\ is_EMD_file(file) => get_EMD_rootgroups(file) = keys(file.g, <<>>)
    /\ \A q \in DOMAIN file.g : Len(q) > 1 => file.g[q].tag # "root"

\* an appendover call returned on a file that now holds two roots, one of
\* them with data groups below it
C40_Witness ==
    /\ last.called /\ last.err = "none" /\ last.mode \in appendovermode
    /\ last.before.exists
    /\ Cardinality(C40_TopLevel) = 2
    /\ \E q \in DOMAIN file.g : Len(q) = 3 /\ IsDataGroup(file.g, q)

====
